---- MODULE Spec2Model ----
(***************************************************************************)
(* The selector extension engine of grass (src/selector/extend/mod.rs):    *)
(* the Extender's indices, add_selector / add_extension with their         *)
(* cascading passes, the one-shot extend / replace calls, and trim.        *)
(*                                                                         *)
(* Selectors are values.  A simple selector is a record, a compound a      *)
(* sequence of simples, a complex selector a sequence of components and a  *)
(* selector list a sequence of complex selectors.  ComplexSelector's       *)
(* line_break flag and the spans take no part in equality and are left     *)
(* out.  Extension::assert_compatible_media_context returns nothing that   *)
(* the callers at mod.rs:406 and mod.rs:489 use, and is left out too.      *)
(***************************************************************************)
EXTENDS Integers, Sequences, FiniteSets, TLC

\* The Extender's fields, and what the claims need to remember of the calls:
\* their number, the rules add_selector was called for, the (target,
\* extender) pairs in the order add_extension was given them, the last
\* engine call and the last one-shot call.  `trimmed` is the last call of
\* trim on its own, `inserted` the last call of str-insert, `running` the
\* call of add_extension that is under way when it is followed loop by loop,
\* `cascading` its new_extensions_by_target and additional_extensions,
\* `looped` the last @for loop.
VARIABLES selectors, extensions, extensions_by_extender, media_contexts,
          source_specificity, originals, calls, rules, registered, last, oneshot, trimmed,
          inserted, running, cascading, looped

vars == <<selectors, extensions, extensions_by_extender, media_contexts,
          source_specificity, originals, calls, rules, registered, last, oneshot, trimmed,
          inserted, running, cascading, looped>>

(***************************************************************************)
(* Generic sequence helpers.                                               *)
(***************************************************************************)
Range(s) == {s[i] : i \in 1..Len(s)}

Last(s) == s[Len(s)]

Front(s) == SubSeq(s, 1, Len(s) - 1)

RECURSIVE Flatten(_)
Flatten(ss) == IF ss = <<>> THEN <<>> ELSE Head(ss) \o Flatten(Tail(ss))

Contains(s, e) == \E i \in 1..Len(s) : s[i] = e

IndexOf(s, e) == IF Contains(s, e) THEN CHOOSE i \in 1..Len(s) : s[i] = e /\ \A j \in 1..(i - 1) : s[j] # e ELSE 0

MaxOf(a, b) == IF a >= b THEN a ELSE b

MinOf(a, b) == IF a <= b THEN a ELSE b

\* All orders in which the elements of a finite set can be visited.
RECURSIVE Perms(_)
Perms(S) == IF S = {} THEN {<<>>} ELSE UNION {{<<e>> \o p : p \in Perms(S \ {e})} : e \in S}

\* Option<T>
None == [some |-> FALSE, val |-> <<>>]

Some(v) == [some |-> TRUE, val |-> v]

(***************************************************************************)
(* The selector model.                                                     *)
(***************************************************************************)
Class(n) == [kind |-> "class", name |-> n, has |-> FALSE, sel |-> <<>>]

Placeholder(n) == [kind |-> "placeholder", name |-> n, has |-> FALSE, sel |-> <<>>]

\* A pseudo-class with an inner selector list, e.g. :not(.a)
PseudoSel(n, list) == [kind |-> "pseudo", name |-> n, has |-> TRUE, sel |-> list]

Compound(simples) == [kind |-> "compound", comb |-> "", components |-> simples]

Combinator(c) == [kind |-> "combinator", comb |-> c, components |-> <<>>]

\* The complex selector made of one compound holding `simples`.
OneCompound(simples) == <<Compound(simples)>>

\* Option<Vec<CssMediaQuery>>; CssMediaQuery is a unit struct.
NoMedia == [some |-> FALSE, val |-> <<>>]

InMedia == [some |-> TRUE, val |-> <<"q">>]

ClassSpecificity == 1000

RECURSIVE SimpleMinSpecificity(_), SimpleMaxSpecificity(_), ComplexMinSpecificity(_), ComplexMaxSpecificity(_)
SimpleMinSpecificity(s) ==
    IF ~s.has THEN ClassSpecificity
    ELSE IF s.name = "not"
    THEN LET RECURSIVE go(_, _)
             go(i, acc) == IF i > Len(s.sel) THEN acc ELSE go(i + 1, MaxOf(acc, ComplexMinSpecificity(s.sel[i])))
         IN go(1, 0)
    ELSE LET RECURSIVE go(_, _)
             go(i, acc) == IF i > Len(s.sel) THEN acc ELSE go(i + 1, MinOf(acc, ComplexMinSpecificity(s.sel[i])))
         IN go(1, ClassSpecificity * ClassSpecificity * ClassSpecificity)

SimpleMaxSpecificity(s) ==
    IF ~s.has THEN ClassSpecificity
    ELSE LET RECURSIVE go(_, _)
             go(i, acc) == IF i > Len(s.sel) THEN acc ELSE go(i + 1, MaxOf(acc, ComplexMaxSpecificity(s.sel[i])))
         IN go(1, 0)

ComplexMinSpecificity(c) ==
    LET RECURSIVE simples(_, _)
        simples(ss, i) == IF i > Len(ss) THEN 0 ELSE SimpleMinSpecificity(ss[i]) + simples(ss, i + 1)
        RECURSIVE comps(_)
        comps(i) == IF i > Len(c) THEN 0
                    ELSE (IF c[i].kind = "compound" THEN simples(c[i].components, 1) ELSE 0) + comps(i + 1)
    IN comps(1)

ComplexMaxSpecificity(c) ==
    LET RECURSIVE simples(_, _)
        simples(ss, i) == IF i > Len(ss) THEN 0 ELSE SimpleMaxSpecificity(ss[i]) + simples(ss, i + 1)
        RECURSIVE comps(_)
        comps(i) == IF i > Len(c) THEN 0
                    ELSE (IF c[i].kind = "compound" THEN simples(c[i].components, 1) ELSE 0) + comps(i + 1)
    IN comps(1)

\* SelectorList::is_invisible: every complex holds a placeholder (or a
\* pseudo, other than :not, whose whole inner list is invisible).
RECURSIVE SimpleIsInvisible(_), ListIsInvisible(_)
SimpleIsInvisible(s) ==
    \/ s.kind = "placeholder"
    \/ s.kind = "pseudo" /\ s.has /\ s.name # "not" /\ ListIsInvisible(s.sel)

ComplexIsInvisible(c) ==
    \E i \in 1..Len(c) : c[i].kind = "compound" /\ \E j \in 1..Len(c[i].components) : SimpleIsInvisible(c[i].components[j])

ListIsInvisible(list) == \A i \in 1..Len(list) : ComplexIsInvisible(list[i])

\* CompoundSelector::is_super_selector: every simple of `a` occurs in `b`.
CompoundIsSuperSelector(a, b) == \A i \in 1..Len(a.components) : Contains(b.components, a.components[i])

\* ComplexSelector::is_super_selector for descendant chains: the compounds of
\* `a` match a subsequence of the compounds of `b`, the last one matching the
\* last of `b`.
RECURSIVE ComplexIsSuperSelectorFrom(_, _, _, _)
ComplexIsSuperSelectorFrom(a, b, i1, i2) ==
    LET remaining1 == Len(a) - i1 + 1
        remaining2 == Len(b) - i2 + 1
    IN IF remaining1 <= 0 \/ remaining2 <= 0 \/ remaining1 > remaining2 THEN FALSE
       ELSE IF a[i1].kind # "compound" THEN FALSE
       ELSE IF remaining1 = 1 THEN Last(b).kind = "compound" /\ CompoundIsSuperSelector(a[i1], Last(b))
       ELSE LET hits == {k \in i2..(Len(b) - 1) : b[k].kind = "compound" /\ CompoundIsSuperSelector(a[i1], b[k])}
            IN IF hits = {} THEN FALSE
               ELSE ComplexIsSuperSelectorFrom(a, b, i1 + 1, (CHOOSE k \in hits : \A h \in hits : k <= h) + 1)

ComplexIsSuperSelector(a, b) == ComplexIsSuperSelectorFrom(a, b, 1, 1)

(***************************************************************************)
(* Combinatorics: paths, weave, unify_complex.                             *)
(***************************************************************************)
\* paths([[a,b],[c,d]]) = [[a,c],[a,d],[b,c],[b,d]]
RECURSIVE Paths(_)
Paths(lists) ==
    IF lists = <<>> THEN << <<>> >>
    ELSE LET rest == Paths(Tail(lists))
             first == Head(lists)
         IN Flatten([i \in 1..Len(first) |-> [j \in 1..Len(rest) |-> <<first[i]>> \o rest[j]]])

\* The ways to merge two descendant chains of parents.
WeaveParents(prefix, parents) ==
    IF parents = <<>> THEN <<prefix>>
    ELSE IF prefix = <<>> \/ prefix = parents THEN <<parents>>
    ELSE <<prefix \o parents, parents \o prefix>>

RECURSIVE WeaveFrom(_, _, _)
WeaveFrom(prefixes, complexes, k) ==
    IF k > Len(complexes) THEN prefixes
    ELSE LET complex == complexes[k]
         IN IF complex = <<>> THEN WeaveFrom(prefixes, complexes, k + 1)
            ELSE IF Len(complex) = 1
            THEN WeaveFrom([i \in 1..Len(prefixes) |-> prefixes[i] \o complex], complexes, k + 1)
            ELSE LET parents == Front(complex)
                     target == Last(complex)
                     next == Flatten([i \in 1..Len(prefixes) |->
                                 LET pp == WeaveParents(prefixes[i], parents)
                                 IN [j \in 1..Len(pp) |-> pp[j] \o <<target>>]])
                 IN WeaveFrom(next, complexes, k + 1)

Weave(complexes) == IF complexes = <<>> THEN <<>> ELSE WeaveFrom(<<complexes[1]>>, complexes, 2)

\* SimpleSelector::unify: `simple` joins `compound` unless it is there
\* already; a non-pseudo goes before the first pseudo.
SimpleUnify(simple, compound) ==
    IF Contains(compound, simple) THEN compound
    ELSE LET pseudos == {i \in 1..Len(compound) : compound[i].kind = "pseudo"}
         IN IF simple.kind = "pseudo" \/ pseudos = {} THEN Append(compound, simple)
            ELSE LET p == CHOOSE i \in pseudos : \A j \in pseudos : i <= j
                 IN SubSeq(compound, 1, p - 1) \o <<simple>> \o SubSeq(compound, p, Len(compound))

RECURSIVE UnifyAll(_, _)
UnifyAll(simples, base) ==
    IF simples = <<>> THEN base ELSE UnifyAll(Tail(simples), SimpleUnify(Head(simples), base))

RECURSIVE UnifiedBase(_, _, _)
UnifiedBase(complexes, k, base) ==
    IF k > Len(complexes) THEN base
    ELSE UnifiedBase(complexes, k + 1, UnifyAll(Last(complexes[k]).components, base))

\* unify_complex: the last compounds are unified into one, which ends the
\* weave of what precedes them.  None when a sequence does not end in a
\* compound.
UnifyComplex(complexes) ==
    IF complexes = <<>> THEN None
    ELSE IF Len(complexes) = 1 THEN Some(complexes)
    ELSE IF \E k \in 1..Len(complexes) : complexes[k] = <<>> \/ Last(complexes[k]).kind # "compound" THEN None
    ELSE LET base == UnifiedBase(complexes, 2, Last(complexes[1]).components)
             n == Len(complexes)
             without == [k \in 1..n |-> IF k = n THEN Append(Front(complexes[k]), Compound(base))
                                        ELSE Front(complexes[k])]
         IN Some(Weave(without))

(***************************************************************************)
(* Extensions.                                                             *)
(***************************************************************************)
\* Option<SimpleSelector>::None
NoSimple == [kind |-> "none", name |-> "", has |-> FALSE, sel |-> <<>>]

\* Extension::one_off
OneOff(extender, specificity, is_original) ==
    [extender |-> extender, target |-> NoSimple, specificity |-> specificity,
     is_optional |-> TRUE, is_original |-> is_original, media_context |-> NoMedia]

\* MergedExtension::merge
Merge(left, right) ==
    [left EXCEPT !.is_optional = left.is_optional /\ right.is_optional,
                 !.is_original = left.is_original \/ right.is_original]

\* Extension::with_extender
WithExtender(extension, complex) == [extension EXCEPT !.extender = complex]

\* IndexMap<ComplexSelector, Extension> is the sequence of its entries
\* [key, val] in insertion order.
MapHas(m, key) == \E i \in 1..Len(m) : m[i].key = key

MapGet(m, key) == m[CHOOSE i \in 1..Len(m) : m[i].key = key].val

\* IndexMap::insert: a present key keeps its place and gets the new value.
MapInsert(m, key, e) ==
    IF MapHas(m, key)
    THEN [i \in 1..Len(m) |-> IF m[i].key = key THEN [key |-> key, val |-> e] ELSE m[i]]
    ELSE Append(m, [key |-> key, val |-> e])

\* IndexMap::extend
RECURSIVE MapExtend(_, _)
MapExtend(m, other) ==
    IF other = <<>> THEN m ELSE MapExtend(MapInsert(m, Head(other).key, Head(other).val), Tail(other))

MapRemove(m, key) == SelectSeq(m, LAMBDA e : e.key # key)

\* IndexMap::values
MapValues(m) == [i \in 1..Len(m) |-> m[i].val]

\* HashMap::get(..).unwrap_or(&0)
SpecificityOf(ss, simple) == IF simple \in DOMAIN ss THEN ss[simple] ELSE 0

SourceSpecificityFor(ss, compound) ==
    LET RECURSIVE go(_, _)
        go(i, specificity) ==
            IF i > Len(compound.components) THEN specificity
            ELSE go(i + 1, MaxOf(specificity, SpecificityOf(ss, compound.components[i])))
    IN go(1, 0)

ExtensionForSimple(ss, simple) == OneOff(OneCompound(<<simple>>), SpecificityOf(ss, simple), TRUE)

ExtensionForCompound(ss, simples) ==
    OneOff(OneCompound(simples), SourceSpecificityFor(ss, Compound(simples)), TRUE)

(***************************************************************************)
(* Trim.                                                                   *)
(***************************************************************************)
TrimThreshold == 100

\* rotate_slice on 0-based [start, end): the element at end - 1 moves to
\* start, the others move one place up.
RotateSlice(list, start, end) ==
    [k \in 1..Len(list) |->
        IF k - 1 < start \/ k - 1 >= end THEN list[k]
        ELSE IF k - 1 = start THEN list[end] ELSE list[k - 1]]

\* The maximum source specificity of the compounds of `complex1`.
TrimMaxSpecificity(ss, complex1) ==
    LET RECURSIVE go(_, _)
        go(i, acc) ==
            IF i > Len(complex1) THEN acc
            ELSE go(i + 1, IF complex1[i].kind = "compound"
                           THEN MaxOf(acc, SourceSpecificityFor(ss, complex1[i])) ELSE acc)
    IN go(1, 0)

\* One round of trim's loop for the candidate at (1-based) position i,
\* then the rounds for the candidates before it.
RECURSIVE TrimLoop(_, _, _, _, _, _)
TrimLoop(sels, i, result, num_originals, orig, ss) ==
    IF i < 1 THEN result
    ELSE LET complex1 == sels[i]
         IN IF complex1 \in orig
            THEN LET dups == {j \in 1..num_originals : j <= Len(result) /\ result[j] = complex1}
                 IN IF dups # {}
                    THEN LET j == CHOOSE d \in dups : \A e \in dups : d <= e
                         IN TrimLoop(sels, i - 1, RotateSlice(result, 0, j), num_originals, orig, ss)
                    ELSE TrimLoop(sels, i - 1, <<complex1>> \o result, num_originals + 1, orig, ss)
            ELSE LET max_specificity == TrimMaxSpecificity(ss, complex1)
                     covers(complex2) == /\ ComplexMinSpecificity(complex2) >= max_specificity
                                         /\ ComplexIsSuperSelector(complex2, complex1)
                 IN IF \/ \E k \in 1..Len(result) : covers(result[k])
                       \/ \E k \in 1..(i - 1) : covers(sels[k])
                    THEN TrimLoop(sels, i - 1, result, num_originals, orig, ss)
                    ELSE TrimLoop(sels, i - 1, <<complex1>> \o result, num_originals, orig, ss)

\* trim indexes its first candidate without looking at the length: an empty
\* candidate list makes it panic.
TrimPanics(sels) == sels = <<>>

\* A trim without the threshold.
TrimWithoutThreshold(sels, orig, ss) == TrimLoop(sels, Len(sels), <<>>, 0, orig, ss)

\* A trim that returns what it kept in the order it visited the candidates,
\* the last candidate first.
TrimBackwards(sels, orig, ss) ==
    IF Len(sels) > TrimThreshold THEN sels
    ELSE LET kept == TrimLoop(sels, Len(sels), <<>>, 0, orig, ss)
         IN [k \in 1..Len(kept) |-> kept[Len(kept) + 1 - k]]

\* A trim that takes no candidate for an original.
TrimNoOriginals(sels, orig, ss) ==
    IF Len(sels) > TrimThreshold THEN sels
    ELSE TrimLoop(sels, Len(sels), <<>>, 0, {}, ss)

Trim(sels, orig, ss) ==
    IF Len(sels) > TrimThreshold THEN sels
    ELSE TrimLoop(sels, Len(sels), <<>>, 0, orig, ss)

(***************************************************************************)
(* The extension algorithm.  `mode`, `ss` (source_specificity) and `orig`  *)
(* (originals) are the fields of self the methods read; originals is the   *)
(* only field they write, so each returns it beside its value.             *)
(***************************************************************************)
\* A without_pseudo that never offers the simple selector itself.
WithoutPseudoDropsSelf(mode, ss, simple, exts, used) ==
    IF simple \notin DOMAIN exts THEN [val |-> None, used |-> used]
    ELSE [val |-> Some(MapValues(exts[simple])), used |-> used \cup {simple}]

\* A without_pseudo that offers the simple selector itself in every mode.
WithoutPseudoKeepsSelf(mode, ss, simple, exts, used) ==
    IF simple \notin DOMAIN exts THEN [val |-> None, used |-> used]
    ELSE [val |-> Some(<<ExtensionForSimple(ss, simple)>> \o MapValues(exts[simple])), used |-> used \cup {simple}]

\* Extender::without_pseudo; `used` is targets_used.
WithoutPseudo(mode, ss, simple, exts, used) ==
    IF simple \notin DOMAIN exts THEN [val |-> None, used |-> used]
    ELSE IF mode = "Replace"
    THEN [val |-> Some(MapValues(exts[simple])), used |-> used \cup {simple}]
    ELSE [val |-> Some(<<ExtensionForSimple(ss, simple)>> \o MapValues(exts[simple])), used |-> used \cup {simple}]

\* An extend_pseudo that keeps every complex selector of the extended list.
PseudoComplexesUnfiltered(pseudo, extended) == extended

\* extend_pseudo, after the inner list was extended to `extended`: the :not
\* filter, the flattening of nested pseudos and the split of a single :not.
PseudoComplexes(pseudo, extended) ==
    LET kept == IF /\ pseudo.name = "not"
                   /\ ~\E i \in 1..Len(pseudo.sel) : Len(pseudo.sel[i]) > 1
                   /\ \E i \in 1..Len(extended) : Len(extended[i]) = 1
                THEN SelectSeq(extended, LAMBDA complex : Len(complex) <= 1)
                ELSE extended
        flat(complex) ==
            IF Len(complex) # 1 THEN <<complex>>
            ELSE IF complex[1].kind # "compound" THEN <<complex>>
            ELSE IF Len(complex[1].components) # 1 THEN <<complex>>
            ELSE LET inner_pseudo == complex[1].components[1]
                 IN IF inner_pseudo.kind # "pseudo" THEN <<complex>>
                    ELSE IF ~inner_pseudo.has THEN <<complex>>
                    ELSE IF pseudo.name = "not"
                    THEN (IF inner_pseudo.name = "matches" THEN inner_pseudo.sel ELSE <<>>)
                    ELSE IF pseudo.name \in {"matches", "any", "current", "nth-child", "nth-last-child"}
                    THEN (IF inner_pseudo.name # pseudo.name THEN <<>> ELSE inner_pseudo.sel)
                    ELSE IF pseudo.name \in {"has", "host", "host-context", "slotted"}
                    THEN <<complex>>
                    ELSE <<>>
    IN Flatten([i \in 1..Len(kept) |-> flat(kept[i])])

\* An extend_pseudo that never splits a `:not`.
PseudoResultUnsplit(pseudo, extended) ==
    IF extended = pseudo.sel THEN None
    ELSE Some(<<PseudoSel(pseudo.name, PseudoComplexes(pseudo, extended))>>)

PseudoResult(pseudo, extended) ==
    IF extended = pseudo.sel THEN None
    ELSE LET complexes == PseudoComplexes(pseudo, extended)
         IN IF pseudo.name = "not" /\ Len(pseudo.sel) = 1
            THEN (IF complexes = <<>> THEN None
                  ELSE Some([i \in 1..Len(complexes) |-> PseudoSel(pseudo.name, <<complexes[i]>>)]))
            ELSE Some(<<PseudoSel(pseudo.name, complexes)>>)

\* extend_compound once the mode gate is passed: the single option set, or
\* the unification of every path through `options`.
CompoundUnified(mode, options) ==
    IF Len(options) = 1 THEN Some([i \in 1..Len(options[1]) |-> options[1][i].extender])
    ELSE LET ps == Paths(options)
             unified(p) ==
                 LET path == ps[p]
                 IN IF p = 1 /\ mode # "Replace"
                    THEN Some(<< <<Compound(Flatten([k \in 1..Len(path) |-> Last(path[k].extender).components]))>> >>)
                    ELSE LET origs == SelectSeq(path, LAMBDA state : state.is_original)
                             others == SelectSeq(path, LAMBDA state : ~state.is_original)
                             simples == Flatten([k \in 1..Len(origs) |-> Last(origs[k].extender).components])
                             to_unify == (IF simples # <<>> THEN << <<Compound(simples)>> >> ELSE <<>>)
                                         \o [k \in 1..Len(others) |-> others[k].extender]
                         IN UnifyComplex(to_unify)
         IN Some(Flatten([p \in 1..Len(ps) |-> IF unified(p).some THEN unified(p).val ELSE <<>>]))

\* An extend_compound that lets a compound be rewritten when only some of
\* the targets matched in it.
CompoundResultNoGate(mode, compound, exts, options, used) ==
    IF options = <<>> THEN None ELSE CompoundUnified(mode, options)

\* The tail of extend_compound, once `options` and `used` (targets_used) are
\* known.
CompoundResult(mode, compound, exts, options, used) ==
    IF options = <<>> THEN None
    ELSE IF used # {} /\ Cardinality(used) # Cardinality(DOMAIN exts) /\ mode # "Normal" THEN None
    ELSE CompoundUnified(mode, options)

\* The tail of extend_complex: every path through extended_not_expanded is
\* woven; the first selector produced inherits the original status of
\* `complex`.
ComplexResult(orig, complex, extended_not_expanded) ==
    IF extended_not_expanded = <<>> THEN [val |-> None, orig |-> orig]
    ELSE LET ps == Paths(extended_not_expanded)
             out == Flatten([p \in 1..Len(ps) |-> Weave(ps[p])])
         IN [val |-> Some(out),
             orig |-> IF out # <<>> /\ complex \in orig THEN orig \cup {out[1]} ELSE orig]

RECURSIVE ExtendList(_, _, _, _, _), ExtendListFrom(_, _, _, _, _, _, _)
RECURSIVE ExtendComplex(_, _, _, _, _), ExtendComplexFrom(_, _, _, _, _, _, _)
RECURSIVE ExtendCompound(_, _, _, _, _), ExtendCompoundFrom(_, _, _, _, _, _, _, _)
RECURSIVE ExtendSimple(_, _, _, _, _, _), ExtendPseudo(_, _, _, _, _), ExtendedPseudos(_, _, _, _, _, _, _)

\* The body of extend_list's loop for the complex at position i, given the
\* result r of extend_complex for it.
ExtendListStep(mode, ss, list, exts, i, extended, r) ==
    ExtendListFrom(mode, ss, r.orig, list, exts, i + 1,
                   IF r.val.some
                   THEN (IF extended = <<>> /\ i # 1 THEN SubSeq(list, 1, i - 1) ELSE extended) \o r.val.val
                   ELSE IF extended # <<>> THEN Append(extended, list[i]) ELSE extended)

\* extend_list's loop from the complex at position i on.
ExtendListFrom(mode, ss, orig, list, exts, i, extended) ==
    IF i > Len(list)
    THEN [val |-> IF extended = <<>> THEN list ELSE Trim(extended, orig, ss), orig |-> orig]
    ELSE ExtendListStep(mode, ss, list, exts, i, extended, ExtendComplex(mode, ss, orig, list[i], exts))

ExtendList(mode, ss, orig, list, exts) == ExtendListFrom(mode, ss, orig, list, exts, 1, <<>>)

\* The body of extend_complex's loop for the compound at position i, given
\* the result r of extend_compound for it.
ExtendComplexStep(mode, ss, complex, exts, i, extended_not_expanded, r) ==
    ExtendComplexFrom(mode, ss, r.orig, complex, exts, i + 1,
                      IF r.val.some
                      THEN Append(IF extended_not_expanded = <<>>
                                  THEN [k \in 1..(i - 1) |-> << <<complex[k]>> >>]
                                  ELSE extended_not_expanded, r.val.val)
                      ELSE Append(extended_not_expanded, << <<complex[i]>> >>))

\* extend_complex's loop from the component at position i on.
ExtendComplexFrom(mode, ss, orig, complex, exts, i, extended_not_expanded) ==
    IF i > Len(complex) THEN ComplexResult(orig, complex, extended_not_expanded)
    ELSE IF complex[i].kind = "compound"
    THEN ExtendComplexStep(mode, ss, complex, exts, i, extended_not_expanded,
                           ExtendCompound(mode, ss, orig, complex[i], exts))
    ELSE ExtendComplexStep(mode, ss, complex, exts, i, extended_not_expanded, [val |-> None, orig |-> orig])

ExtendComplex(mode, ss, orig, complex, exts) == ExtendComplexFrom(mode, ss, orig, complex, exts, 1, <<>>)

\* The body of extend_compound's loop for the simple at position i, given
\* the result r of extend_simple for it.
ExtendCompoundStep(mode, ss, compound, exts, i, options, r) ==
    ExtendCompoundFrom(mode, ss, r.orig, compound, exts, i + 1,
                       IF r.val.some
                       THEN (IF options = <<>> /\ i # 1
                             THEN << <<ExtensionForCompound(ss, SubSeq(compound.components, 1, i - 1))>> >>
                             ELSE options) \o r.val.val
                       ELSE Append(options, <<ExtensionForSimple(ss, compound.components[i])>>),
                       r.used)

\* extend_compound's loop from the simple at position i on.
ExtendCompoundFrom(mode, ss, orig, compound, exts, i, options, used) ==
    IF i > Len(compound.components)
    THEN [val |-> CompoundResult(mode, compound, exts, options, used), orig |-> orig]
    ELSE ExtendCompoundStep(mode, ss, compound, exts, i, options,
                            ExtendSimple(mode, ss, orig, compound.components[i], exts, used))

ExtendCompound(mode, ss, orig, compound, exts) ==
    ExtendCompoundFrom(mode, ss, orig, compound, exts, 1, <<>>, {})

\* One element of extend_simple's map: the alternatives w that
\* without_pseudo gave for the pseudo at position i, or the pseudo itself.
ExtendedPseudosStep(mode, ss, pseudos, exts, i, acc, w) ==
    ExtendedPseudos(mode, ss, pseudos, exts, i + 1,
                    Append(acc, IF w.val.some THEN w.val.val ELSE <<ExtensionForSimple(ss, pseudos[i])>>), w.used)

\* extend_simple's map over the pseudos that extend_pseudo returned.
ExtendedPseudos(mode, ss, pseudos, exts, i, acc, used) ==
    IF i > Len(pseudos) THEN [val |-> acc, used |-> used]
    ELSE ExtendedPseudosStep(mode, ss, pseudos, exts, i, acc, WithoutPseudo(mode, ss, pseudos[i], exts, used))

\* extend_simple's last line: without_pseudo(simple), wrapped in a list.
SimpleDirect(orig, plain) ==
    [val |-> IF plain.val.some THEN Some(<<plain.val.val>>) ELSE None, orig |-> orig, used |-> plain.used]

\* extend_simple's first return: the alternatives m collected for the
\* pseudos that extend_pseudo returned.
SimpleExtended(orig, m) == [val |-> Some(m.val), orig |-> orig, used |-> m.used]

\* extend_simple for a pseudo that holds a selector, given the result r of
\* extend_pseudo for it.
SimplePseudo(mode, ss, simple, exts, used, r) ==
    IF r.val.some
    THEN SimpleExtended(r.orig, ExtendedPseudos(mode, ss, r.val.val, exts, 1, <<>>, used))
    ELSE SimpleDirect(r.orig, WithoutPseudo(mode, ss, simple, exts, used))

ExtendSimple(mode, ss, orig, simple, exts, used) ==
    IF simple.kind = "pseudo" /\ simple.has
    THEN SimplePseudo(mode, ss, simple, exts, used, ExtendPseudo(mode, ss, orig, simple, exts))
    ELSE SimpleDirect(orig, WithoutPseudo(mode, ss, simple, exts, used))

\* extend_pseudo, given the result r of extend_list for the inner list.
PseudoExtended(pseudo, r) == [val |-> PseudoResult(pseudo, r.val), orig |-> r.orig]

ExtendPseudo(mode, ss, orig, pseudo, exts) ==
    PseudoExtended(pseudo, ExtendList(mode, ss, orig, pseudo.sel, exts))

(***************************************************************************)
(* The one-shot calls: Extender::extend and Extender::replace.             *)
(***************************************************************************)
\* The message of the error for a complex target; the source text ends in a
\* literal "$complex." that is not interpolated.
ErrComplexTarget == "Can't extend complex selector $complex."

\* The IndexMap collected from `source`: one one-off extension per distinct
\* complex, at the place of its first occurrence.
SourceExtenders(source) ==
    MapExtend(<<>>, [i \in 1..Len(source) |->
                        [key |-> source[i], val |-> OneOff(source[i], ComplexMaxSpecificity(source[i]), FALSE)]])

\* The simple selectors of the compound targets, each mapped to `extenders`.
TargetExtensions(targets, extenders) ==
    LET simples == UNION {Range(targets[i][1].components) : i \in 1..Len(targets)}
    IN [simple \in simples |-> extenders]

\* An extend_or_replace that looks at the first target only.
ExtendOrReplaceFirstTargetOnly(selector, source, targets, mode) ==
    IF targets # <<>> /\ Len(targets[1]) # 1
    THEN [ok |-> FALSE, err |-> ErrComplexTarget, list |-> <<>>]
    ELSE LET orig == IF ~ListIsInvisible(selector) THEN Range(selector) ELSE {}
             exts == TargetExtensions(targets, SourceExtenders(source))
         IN [ok |-> TRUE, err |-> "", list |-> ExtendList(mode, <<>>, orig, selector, exts).val]

ExtendOrReplace(selector, source, targets, mode) ==
    IF \E i \in 1..Len(targets) : Len(targets[i]) # 1
    THEN [ok |-> FALSE, err |-> ErrComplexTarget, list |-> <<>>]
    ELSE LET orig == IF ~ListIsInvisible(selector) THEN Range(selector) ELSE {}
             exts == TargetExtensions(targets, SourceExtenders(source))
         IN [ok |-> TRUE, err |-> "", list |-> ExtendList(mode, <<>>, orig, selector, exts).val]

(***************************************************************************)
(* The engine: an Extender in Normal mode.  An engine value `eng` is the   *)
(* record of the Extender's fields; `log` collects the re-extensions that  *)
(* extend_existing_selectors computes.                                     *)
(***************************************************************************)
EmptyMap == <<>>

MapPut(f, k, v) == [x \in (DOMAIN f) \cup {k} |-> IF x = k THEN v ELSE f[x]]

NewExtender ==
    [selectors |-> EmptyMap, extensions |-> EmptyMap, extensions_by_extender |-> EmptyMap,
     media_contexts |-> EmptyMap, source_specificity |-> EmptyMap, originals |-> {}]

\* The simple selectors register_selector visits in `list`: those of its
\* compounds and, recursively, those inside pseudo selectors.
RECURSIVE RegisteredSimples(_)
RegisteredSimples(list) ==
    UNION {UNION {UNION {{list[i][j].components[k]} \cup
                         (IF list[i][j].components[k].kind = "pseudo" /\ list[i][j].components[k].has
                          THEN RegisteredSimples(list[i][j].components[k].sel) ELSE {})
                        : k \in 1..Len(list[i][j].components)}
                 : j \in {j \in 1..Len(list[i]) : list[i][j].kind = "compound"}}
          : i \in 1..Len(list)}

\* register_selector(list, selector)
RegisterSelector(sels, list, selector) ==
    LET simples == RegisteredSimples(list)
    IN [s \in (DOMAIN sels) \cup simples |->
           IF s \in simples
           THEN (IF s \in DOMAIN sels THEN sels[s] ELSE {}) \cup {selector}
           ELSE sels[s]]

\* self.media_contexts.get_mut(&selector).replace(&mut media_query_context):
\* replace acts on the Option that get_mut returned, never on the map.
RecordMediaContext(contexts, selector, media_query_context) == contexts

\* The simple selectors of the compounds of `complex` in order, with
\* repetitions.
ComplexSimples(complex) ==
    Flatten([j \in 1..Len(complex) |-> IF complex[j].kind = "compound" THEN complex[j].components ELSE <<>>])

\* A push that enters the extension under the first simple only.
PushUnderFirstSimple(ebe, simples, state) ==
    IF simples = <<>> THEN ebe
    ELSE MapPut(ebe, Head(simples),
                Append(IF Head(simples) \in DOMAIN ebe THEN ebe[Head(simples)] ELSE <<>>, state))

RECURSIVE PushByExtender(_, _, _)
PushByExtender(ebe, simples, state) ==
    IF simples = <<>> THEN ebe
    ELSE PushByExtender(MapPut(ebe, Head(simples),
                               Append(IF Head(simples) \in DOMAIN ebe THEN ebe[Head(simples)] ELSE <<>>, state)),
                        Tail(simples), state)

\* A source specificity that every new extension overwrites.
RECURSIVE SetSourceSpecificityOverwrites(_, _, _)
SetSourceSpecificityOverwrites(ss, simples, specificity) ==
    IF simples = <<>> THEN ss
    ELSE SetSourceSpecificityOverwrites(MapPut(ss, Head(simples), specificity), Tail(simples), specificity)

\* self.source_specificity.entry(simple).or_insert_with(..) for each simple
RECURSIVE SetSourceSpecificity(_, _, _)
SetSourceSpecificity(ss, simples, specificity) ==
    IF simples = <<>> THEN ss
    ELSE SetSourceSpecificity(IF Head(simples) \in DOMAIN ss THEN ss ELSE MapPut(ss, Head(simples), specificity),
                              Tail(simples), specificity)

\* An add_selector that extends the list whether or not there are
\* extensions.
\* The end of add_selector, r being the selector to register and the
\* originals: the media context and the registration.
AddSelectorDone(eng, media_query_context, r) ==
    [eng |-> [eng EXCEPT !.originals = r.orig,
                         !.media_contexts = IF media_query_context.some
                                            THEN RecordMediaContext(eng.media_contexts, r.val, media_query_context.val)
                                            ELSE eng.media_contexts,
                         !.selectors = RegisterSelector(eng.selectors, r.val, r.val)],
     result |-> r.val]

\* The originals once add_selector has entered the complexes of `selector`.
AddSelectorOriginals(eng, selector) ==
    IF ~ListIsInvisible(selector) THEN eng.originals \cup Range(selector) ELSE eng.originals

AddSelectorAlwaysExtends(eng, selector, media_query_context) ==
    AddSelectorDone(eng, media_query_context,
                    ExtendList("Normal", eng.source_specificity, AddSelectorOriginals(eng, selector),
                               selector, eng.extensions))

\* add_selector: the engine afterwards and the list returned.
AddSelectorResult(eng, selector, media_query_context) ==
    AddSelectorDone(eng, media_query_context,
                    IF DOMAIN eng.extensions # {}
                    THEN ExtendList("Normal", eng.source_specificity, AddSelectorOriginals(eng, selector),
                                    selector, eng.extensions)
                    ELSE [val |-> selector, orig |-> AddSelectorOriginals(eng, selector)])

\* map_add_all_2
MapAddAll2(destination, source) ==
    [key \in DOMAIN destination |->
        IF key \in DOMAIN source THEN MapExtend(destination[key], source[key]) ELSE destination[key]]

\* The body of extend_existing_extensions' inner loop over the selectors
\* that re-extending `extension` produced.  `sources` is the clone of
\* extensions[extension.target]; the writes to it go to temporaries.
RECURSIVE ReExtended(_, _, _, _, _, _, _)
ReExtended(ebe, additional, extension, sources, new_extensions, complexes, i) ==
    IF i > Len(complexes) THEN [ebe |-> ebe, additional |-> additional]
    ELSE LET complex == complexes[i]
             with_extender == WithExtender(extension, complex)
         IN IF MapHas(sources, complex)
            THEN ReExtended(ebe, additional, extension, sources, new_extensions, complexes, i + 1)
            ELSE ReExtended(PushByExtender(ebe, ComplexSimples(complex), with_extender),
                            IF extension.target \in DOMAIN new_extensions
                            THEN MapPut(additional, extension.target,
                                        MapInsert(IF extension.target \in DOMAIN additional
                                                  THEN additional[extension.target] ELSE <<>>,
                                                  complex, with_extender))
                            ELSE additional,
                            extension, sources, new_extensions, complexes, i + 1)

\* extend_existing_extensions from the extension at position i on; the
\* additional extensions are an empty map where the code returns None.
RECURSIVE ExtendExistingExtensions(_, _, _, _, _)

\* The extensions after i, x being what the inner loop left for the
\* extension at position i.
ExtendExistingExtensionsNext(eng, exts, new_extensions, i, orig, x) ==
    ExtendExistingExtensions([eng EXCEPT !.originals = orig, !.extensions_by_extender = x.ebe],
                             exts, new_extensions, i + 1, x.additional)

\* The body of extend_existing_extensions' loop for the extension at
\* position i, given the result r of extend_complex for its extender.
ExtendExistingExtensionsStep(eng, exts, new_extensions, i, additional, r) ==
    ExtendExistingExtensionsNext(eng, exts, new_extensions, i, r.orig,
        IF ~r.val.some
        THEN [ebe |-> eng.extensions_by_extender, additional |-> additional]
        ELSE ReExtended(eng.extensions_by_extender, additional, exts[i], eng.extensions[exts[i].target],
                        new_extensions, r.val.val, 1))

ExtendExistingExtensions(eng, exts, new_extensions, i, additional) ==
    IF i > Len(exts) THEN [eng |-> eng, additional |-> additional]
    ELSE ExtendExistingExtensionsStep(eng, exts, new_extensions, i, additional,
             ExtendComplex("Normal", eng.source_specificity, eng.originals, exts[i].extender, new_extensions))

\* extend_existing_selectors over the registered lists in the order `ord`.
RECURSIVE ExtendExistingSelectors(_, _, _, _, _)

\* The body of extend_existing_selectors' loop for the list at position i
\* of `ord`, given the result r of extend_list for it.
ExtendExistingSelectorsStep(eng, log, ord, new_extensions, i, r) ==
    ExtendExistingSelectors(
        [eng EXCEPT !.originals = r.orig,
                    !.selectors = IF ord[i] = r.val THEN @ ELSE RegisterSelector(@, r.val, ord[i])],
        Append(log, [old |-> ord[i], new |-> r.val,
                     media |-> IF ord[i] \in DOMAIN eng.media_contexts
                               THEN Some(eng.media_contexts[ord[i]]) ELSE NoMedia]),
        ord, new_extensions, i + 1)

\* An extend_existing_selectors that re-extends only the list it visits
\* first.
ExtendExistingSelectorsFirstOnly(eng, log, ord, new_extensions, i) ==
    IF i > 1 \/ i > Len(ord) THEN [eng |-> eng, log |-> log]
    ELSE ExtendExistingSelectorsStep(eng, log, ord, new_extensions, i,
             ExtendList("Normal", eng.source_specificity, eng.originals, ord[i], new_extensions))

ExtendExistingSelectors(eng, log, ord, new_extensions, i) ==
    IF i > Len(ord) THEN [eng |-> eng, log |-> log]
    ELSE ExtendExistingSelectorsStep(eng, log, ord, new_extensions, i,
             ExtendList("Normal", eng.source_specificity, eng.originals, ord[i], new_extensions))

\* sources.get_mut(&complex).replace(&mut new_val): replace acts on the
\* Option that get_mut returned, so `sources` keeps the old extension.
ReplaceMerged(sources, complex, new_val) == sources

\* An extension that records no target.
NewExtensionNoTarget(complex, target, is_optional, media_context) ==
    [extender |-> complex, target |-> NoSimple, specificity |-> ComplexMaxSpecificity(complex),
     is_optional |-> is_optional, is_original |-> FALSE, media_context |-> media_context]

\* The extension add_extension builds for one complex of the extender.
NewExtension(complex, target, is_optional, media_context) ==
    [extender |-> complex, target |-> target, specificity |-> ComplexMaxSpecificity(complex),
     is_optional |-> is_optional, is_original |-> FALSE, media_context |-> media_context]

\* A commit that leaves extensions with the entry of `target` alone.
CommitSourcesOnly(eng, target, sources) ==
    [eng EXCEPT !.extensions = [t \in {target} |-> MapExtend(@[target], sources)]]

\* self.extensions.get_mut(target).get_or_insert(..).extend(sources)
CommitSources(eng, target, sources) ==
    [eng EXCEPT !.extensions = MapPut(@, target, MapExtend(@[target], sources))]

\* add_extension's loop from the complex of `extender` at position i on.
\* `sels` and `existing` are the clones taken on entry (an Option each),
\* `ord` the order in which the set `sels` is iterated.
RECURSIVE AddExtensionFrom(_, _, _, _, _, _, _, _, _, _, _, _)

\* The complexes after i, y being the engine and the log that the cascade
\* for the complex at position i left.
AddExtensionNext(y, extender, target, is_optional, media_context, sels, existing, ord, i, sources, new_extensions) ==
    AddExtensionFrom(y.eng, y.log, extender, target, is_optional, media_context,
                     sels, existing, ord, i + 1, sources, new_extensions)

\* The second half of the cascade: x is what extend_existing_extensions
\* left, by_target is new_extensions_by_target.
AddExtensionSelectors(x, log, sels, ord, by_target) ==
    IF sels.some
    THEN ExtendExistingSelectors(x.eng, log, ord, MapAddAll2(by_target, x.additional), 1)
    ELSE [eng |-> x.eng, log |-> log]

\* The cascade for one new extension: extend_existing_extensions, then
\* extend_existing_selectors.
AddExtensionCascade(eng, log, sels, existing, ord, by_target) ==
    AddExtensionSelectors(IF existing.some
                          THEN ExtendExistingExtensions(eng, existing.val, by_target, 1, EmptyMap)
                          ELSE [eng |-> eng, additional |-> EmptyMap],
                          log, sels, ord, by_target)

\* The engine once the new extension `state` is entered under the simples
\* of its extender.
AddExtensionEntered(eng, complex, state) ==
    [eng EXCEPT !.extensions_by_extender = PushByExtender(@, ComplexSimples(complex), state),
                !.source_specificity = SetSourceSpecificity(@, ComplexSimples(complex),
                                                            ComplexMaxSpecificity(complex))]

AddExtensionFrom(eng, log, extender, target, is_optional, media_context, sels, existing, ord, i, sources, new_extensions) ==
    IF i > Len(extender) THEN [eng |-> CommitSources(eng, target, sources), log |-> log]
    ELSE LET complex == extender[i]
             state == NewExtension(complex, target, is_optional, media_context)
         IN IF MapHas(sources, complex)
            THEN AddExtensionFrom(eng, log, extender, target, is_optional, media_context, sels, existing, ord, i + 1,
                                  ReplaceMerged(sources, complex, Merge(MapGet(sources, complex), state)),
                                  new_extensions)
            ELSE IF ~(sels.some \/ existing.some)
            THEN [eng |-> CommitSources(AddExtensionEntered(eng, complex, state), target, MapInsert(sources, complex, state)),
                  log |-> log]
            ELSE AddExtensionNext(
                     AddExtensionCascade(AddExtensionEntered(eng, complex, state), log, sels, existing, ord,
                                         [t \in {target} |-> MapInsert(new_extensions, complex, state)]),
                     extender, target, is_optional, media_context, sels, existing, ord, i,
                     MapInsert(sources, complex, state), MapInsert(new_extensions, complex, state))

\* add_extension: the engine afterwards and the re-extensions computed.
AddExtensionResult(eng, extender, target, is_optional, media_context, ord) ==
    LET sels == IF target \in DOMAIN eng.selectors THEN Some(ord) ELSE None
        existing == IF target \in DOMAIN eng.extensions_by_extender
                    THEN Some(eng.extensions_by_extender[target]) ELSE None
        eng0 == IF target \in DOMAIN eng.extensions THEN eng
                ELSE [eng EXCEPT !.extensions = MapPut(@, target, <<>>)]
    IN AddExtensionFrom(eng0, <<>>, extender, target, is_optional, media_context, sels, existing, ord, 1,
                        eng0.extensions[target], <<>>)

(***************************************************************************)
(* The state machine.                                                      *)
(***************************************************************************)
MaxCalls == 3

A == Class("a")

B == Class("b")

C == Class("c")

X == Class("x")

Y == Class("y")

P == Placeholder("p")

\* The selector lists given to add_selector:
\*   .a   .b   .a.b   .a, .a   .a, .b   :not(.a)   %p
SelectorPool ==
    { <<OneCompound(<<A>>)>>, <<OneCompound(<<B>>)>>, <<OneCompound(<<A, B>>)>>,
      <<OneCompound(<<A>>), OneCompound(<<A>>)>>, <<OneCompound(<<A>>), OneCompound(<<B>>)>>,
      <<OneCompound(<<PseudoSel("not", <<OneCompound(<<A>>)>>)>>)>>, <<OneCompound(<<P>>)>> }

\* The selector lists of the rules that hold an @extend:
\*   .a   .b   .c   .b, .c   .b.c
ExtenderPool ==
    { <<OneCompound(<<A>>)>>, <<OneCompound(<<B>>)>>, <<OneCompound(<<C>>)>>,
      <<OneCompound(<<B>>), OneCompound(<<C>>)>>, <<OneCompound(<<B, C>>)>> }

TargetPool == {A, B}

MediaPool == {NoMedia, InMedia}

\* The arguments of the one-shot calls.
\*   selector: .a   .b   .a.b   .a, .b   %p   :not(.a)   :not(.a, .b)
\*             :matches(.a)
OneShotSelectors ==
    { <<OneCompound(<<A>>)>>, <<OneCompound(<<B>>)>>, <<OneCompound(<<A, B>>)>>,
      <<OneCompound(<<A>>), OneCompound(<<B>>)>>, <<OneCompound(<<P>>)>>,
      <<OneCompound(<<PseudoSel("not", <<OneCompound(<<A>>)>>)>>)>>,
      <<OneCompound(<<PseudoSel("not", <<OneCompound(<<A>>), OneCompound(<<B>>)>>)>>)>>,
      <<OneCompound(<<PseudoSel("matches", <<OneCompound(<<A>>)>>)>>)>> }

\*   source: .x   .x, .y   .x, .x   .x, .x.y   .a   .a.x   .x .y
OneShotSources ==
    { <<OneCompound(<<X>>)>>, <<OneCompound(<<X>>), OneCompound(<<Y>>)>>,
      <<OneCompound(<<X>>), OneCompound(<<X>>)>>, <<OneCompound(<<X>>), OneCompound(<<X, Y>>)>>,
      <<OneCompound(<<A>>)>>, <<OneCompound(<<A, X>>)>>, << <<Compound(<<X>>), Compound(<<Y>>)>> >> }

\*   targets: .a   .a.b   .a, .b   %p   .a .b   .a, .a .b
OneShotTargets ==
    { <<OneCompound(<<A>>)>>, <<OneCompound(<<A, B>>)>>, <<OneCompound(<<A>>), OneCompound(<<B>>)>>,
      <<OneCompound(<<P>>)>>,
      <<<<Compound(<<A>>), Compound(<<B>>)>>>>, <<OneCompound(<<A>>), <<Compound(<<A>>), Compound(<<B>>)>>>> }

Engine ==
    [selectors |-> selectors, extensions |-> extensions, extensions_by_extender |-> extensions_by_extender,
     media_contexts |-> media_contexts, source_specificity |-> source_specificity, originals |-> originals]

NoCall ==
    [op |-> "none", list |-> <<>>, target |-> NoSimple, is_optional |-> FALSE, media |-> NoMedia,
     result |-> <<>>, log |-> <<>>, pre_extensions |-> EmptyMap, outcomes |-> {}]

NoOneShot ==
    [op |-> "none", selector |-> <<>>, source |-> <<>>, targets |-> <<>>,
     res |-> [ok |-> TRUE, err |-> "", list |-> <<>>], alts |-> <<>>,
     pseudo |-> [extended |-> <<>>, ret |-> None]]

NoTrim ==
    [op |-> "none", input |-> <<>>, selectors |-> <<>>, originals |-> {}, source_specificity |-> EmptyMap,
     result |-> <<>>]

NoInsert ==
    [op |-> "none", string |-> [quotes |-> "none", chars |-> <<>>], insert |-> <<>>,
     index |-> [kind |-> "int", n |-> 0], result |-> [ok |-> TRUE, err |-> "", quotes |-> "none", chars |-> <<>>]]

SetEngine(eng) ==
    /\ selectors' = eng.selectors
    /\ extensions' = eng.extensions
    /\ extensions_by_extender' = eng.extensions_by_extender
    /\ media_contexts' = eng.media_contexts
    /\ source_specificity' = eng.source_specificity
    /\ originals' = eng.originals

Init ==
    /\ selectors = EmptyMap
    /\ extensions = EmptyMap
    /\ extensions_by_extender = EmptyMap
    /\ media_contexts = EmptyMap
    /\ source_specificity = EmptyMap
    /\ originals = {}
    /\ calls = 0
    /\ rules = {}
    /\ registered = <<>>
    /\ last = NoCall
    /\ oneshot = NoOneShot
    /\ trimmed = NoTrim
    /\ inserted = NoInsert
    /\ running = [pc |-> "idle", extender |-> <<>>, target |-> NoSimple, is_optional |-> FALSE,
                  sels |-> None, existing |-> None, i |-> 0, k |-> 0, j |-> 0, sources |-> <<>>,
                  new_extensions |-> <<>>, entry |-> None]
    /\ cascading = [by_target |-> EmptyMap, additional |-> EmptyMap]
    /\ looped = [op |-> "none", from |-> 0, to |-> 0, through |-> 0, overflow_checks |-> FALSE,
                 result |-> [ok |-> TRUE, values |-> <<>>]]

\* The state after add_selector, r being the engine it leaves and the list
\* it returns.
AddSelectorReturns(selector, media_query_context, r) ==
    /\ SetEngine(r.eng)
    /\ rules' = rules \cup {[input |-> selector, media |-> media_query_context, result |-> r.result]}
    /\ last' = [op |-> "add_selector", list |-> selector, target |-> NoSimple, is_optional |-> FALSE,
                media |-> media_query_context, result |-> r.result, log |-> <<>>,
                pre_extensions |-> extensions, outcomes |-> {r.eng}]

AddSelector(selector, media_query_context) ==
    /\ calls < MaxCalls
    /\ oneshot.op = "none"
    /\ AddSelectorReturns(selector, media_query_context, AddSelectorResult(Engine, selector, media_query_context))
    /\ calls' = calls + 1
    /\ UNCHANGED <<registered, oneshot, trimmed, inserted, running, cascading, looped>>

RECURSIVE Register(_, _, _)
Register(reg, target, extender) ==
    IF extender = <<>> THEN reg
    ELSE Register(IF Contains(reg, [target |-> target, extender |-> Head(extender)]) THEN reg
                  ELSE Append(reg, [target |-> target, extender |-> Head(extender)]),
                  target, Tail(extender))

\* What add_extension can return: one result for each order in which the
\* HashSet selectors[target] can be iterated.
AddExtensionOutcomes(eng, extender, target, is_optional, media_context) ==
    {AddExtensionResult(eng, extender, target, is_optional, media_context, ord) :
        ord \in Perms(IF target \in DOMAIN eng.selectors THEN eng.selectors[target] ELSE {})}

\* The state after add_extension, r being the engine it leaves and the
\* re-extensions it computed, outcomes the engines it can leave.
AddExtensionReturns(extender, target, is_optional, media_context, r, outcomes) ==
    /\ SetEngine(r.eng)
    /\ last' = [op |-> "add_extension", list |-> extender, target |-> target,
                is_optional |-> is_optional, media |-> media_context, result |-> <<>>,
                log |-> r.log, pre_extensions |-> extensions, outcomes |-> outcomes]

\* add_extension returning one of `results`.
AddExtensionChoice(extender, target, is_optional, media_context, results) ==
    \E r \in results :
        AddExtensionReturns(extender, target, is_optional, media_context, r, {x.eng : x \in results})

AddExtension(extender, target, is_optional, media_context) ==
    /\ calls < MaxCalls
    /\ oneshot.op = "none"
    /\ AddExtensionChoice(extender, target, is_optional, media_context,
                          AddExtensionOutcomes(Engine, extender, target, is_optional, media_context))
    /\ registered' = Register(registered, target, extender)
    /\ calls' = calls + 1
    /\ UNCHANGED <<rules, oneshot, trimmed, inserted, running, cascading, looped>>

\* What without_pseudo gives for the first simple selector of `selector`.
FirstAlternatives(mode, selector, source, targets) ==
    IF \E i \in 1..Len(targets) : Len(targets[i]) # 1 THEN <<>>
    ELSE LET w == WithoutPseudo(mode, <<>>, selector[1][1].components[1],
                                TargetExtensions(targets, SourceExtenders(source)), {})
         IN IF w.val.some THEN [i \in 1..Len(w.val.val) |-> w.val.val[i].extender] ELSE <<>>

\* extend_pseudo for `pseudo`, r being what extend_list gave for its inner
\* list: that list, and what extend_pseudo returns.
FirstPseudoStep(pseudo, r) == [extended |-> r.val, ret |-> PseudoResult(pseudo, r.val)]

\* What extend_pseudo does for the first simple selector of `selector`,
\* when this is a pseudo selector with an inner list.
FirstPseudo(mode, selector, source, targets) ==
    IF \/ \E i \in 1..Len(targets) : Len(targets[i]) # 1
       \/ ~(selector[1][1].components[1].kind = "pseudo" /\ selector[1][1].components[1].has)
    THEN [extended |-> <<>>, ret |-> None]
    ELSE FirstPseudoStep(selector[1][1].components[1],
                         ExtendList(mode, <<>>, IF ~ListIsInvisible(selector) THEN Range(selector) ELSE {},
                                    selector[1][1].components[1].sel,
                                    TargetExtensions(targets, SourceExtenders(source))))

OneShot(op, mode, selector, source, targets) ==
    /\ calls = 0
    /\ oneshot.op = "none"
    /\ oneshot' = [op |-> op, selector |-> selector, source |-> source, targets |-> targets,
                   res |-> ExtendOrReplace(selector, source, targets, mode),
                   alts |-> FirstAlternatives(mode, selector, source, targets),
                   pseudo |-> FirstPseudo(mode, selector, source, targets)]
    /\ UNCHANGED <<selectors, extensions, extensions_by_extender, media_contexts,
                   source_specificity, originals, calls, rules, registered, last, trimmed, inserted, running, cascading, looped>>

\* Extender::extend
Extend(selector, source, targets) == OneShot("extend", "AllTargets", selector, source, targets)

\* Extender::replace
Replace(selector, source, targets) == OneShot("replace", "Replace", selector, source, targets)

Next ==
    \/ \E selector \in SelectorPool, m \in MediaPool : AddSelector(selector, m)
    \/ \E extender \in ExtenderPool, target \in TargetPool, is_optional \in BOOLEAN :
           AddExtension(extender, target, is_optional, NoMedia)
    \/ \E selector \in OneShotSelectors, source \in OneShotSources, targets \in OneShotTargets :
           Extend(selector, source, targets)
    \/ \E selector \in OneShotSelectors, source \in OneShotSources, targets \in OneShotTargets :
           Replace(selector, source, targets)

Spec == Init /\ [][Next]_vars

(***************************************************************************)
(* trim on its own: it is given a non-empty candidate list (extend_list    *)
(* calls it only when `extended` is not empty), a set of originals and a   *)
(* source_specificity map; a second call is given the result of the first. *)
(***************************************************************************)
MaxTrimLen == 3

\* The candidates of the short lists:  .a   .b   .a.b   .a .b   .a.b.c
TrimPool ==
    { OneCompound(<<A>>), OneCompound(<<B>>), OneCompound(<<A, B>>), <<Compound(<<A>>), Compound(<<B>>)>>,
      OneCompound(<<A, B, C>>) }

TrimLists == UNION {[1..n -> TrimPool] : n \in 1..MaxTrimLen}

TrimOriginals == { {}, {OneCompound(<<A>>)}, {OneCompound(<<A>>), OneCompound(<<A, B>>)} }

\* source_specificity: empty, or as left by the extenders `.a.x`, `.b` or
\* `.c.x`.
TrimSpecificities ==
    { EmptyMap, [s \in {A} |-> 2 * ClassSpecificity], [s \in {B} |-> ClassSpecificity],
      [s \in {C} |-> 2 * ClassSpecificity] }

\* The n-th of a family of distinct generated selectors: three compounds
\* of one class each, the classes being the base-5 digits of n.
Digit(k) == <<A, B, C, X, Y>>[k + 1]

Numbered(n) ==
    <<Compound(<<Digit((n \div 25) % 5)>>), Compound(<<Digit((n \div 5) % 5)>>), Compound(<<Digit(n % 5)>>)>>

\* n generated selectors, all distinct or the last one a copy of the first.
LongList(n, repeated) == [i \in 1..n |-> Numbered(IF repeated /\ i = n THEN 1 ELSE i)]

LongLists == {LongList(n, repeated) : n \in (TrimThreshold - 1)..(TrimThreshold + 1), repeated \in BOOLEAN}

LongOriginals == { {}, {Numbered(1)} }

TrimCall(sels, orig, ss) ==
    /\ trimmed.op = "none"
    /\ sels # <<>>
    /\ trimmed' = [op |-> "trim", input |-> sels, selectors |-> sels, originals |-> orig,
                   source_specificity |-> ss, result |-> Trim(sels, orig, ss)]
    /\ UNCHANGED <<selectors, extensions, extensions_by_extender, media_contexts,
                   source_specificity, originals, calls, rules, registered, last, oneshot, inserted, running, cascading, looped>>

\* trim is given what it returned.
TrimAgain ==
    /\ trimmed.op = "trim"
    /\ trimmed.result # <<>>
    /\ trimmed' = [trimmed EXCEPT !.op = "again", !.selectors = trimmed.result,
                                  !.result = Trim(trimmed.result, trimmed.originals, trimmed.source_specificity)]
    /\ UNCHANGED <<selectors, extensions, extensions_by_extender, media_contexts,
                   source_specificity, originals, calls, rules, registered, last, oneshot, inserted, running, cascading, looped>>

NextTrim ==
    \/ \E sels \in TrimLists, orig \in TrimOriginals, ss \in TrimSpecificities : TrimCall(sels, orig, ss)
    \/ \E sels \in LongLists, orig \in LongOriginals : TrimCall(sels, orig, EmptyMap)
    \/ TrimAgain

SpecTrim == Init /\ [][NextTrim]_vars

(***************************************************************************)
(* str-insert($string, $insert, $index).  A string is its quoting ("none", *)
(* "single" or "double") and its characters; an index is an integer, a     *)
(* number that is not an integer, or an integer with a unit.               *)
(***************************************************************************)
MaxIndex == 6

FarIndex == 20

Abc == <<"a", "b", "c">>

Abcd == <<"a", "b", "c", "d">>

Str(quotes, chars) == [quotes |-> quotes, chars |-> chars]

IntIndex(n) == [kind |-> "int", n |-> n]

HalfIndex == [kind |-> "float", n |-> 0]

PxIndex == [kind |-> "units", n |-> 5]

ErrNotInt == "Error: $index: 0.5 is not an int."

ErrUnits == "Error: $index: Expected 5px to have no units."

Inserted(quotes, chars) == [ok |-> TRUE, err |-> "", quotes |-> quotes, chars |-> chars]

InsertError(err) == [ok |-> FALSE, err |-> err, quotes |-> "none", chars |-> <<>>]

\* The number of characters of `chars` that come before the insertion.
StrInsertPosition(chars, n) ==
    IF n > 0 THEN MinOf(n - 1, Len(chars))
    ELSE IF n = 0 THEN 0
    ELSE MaxOf(Len(chars) + n + 1, 0)

\* A str-insert that counts a negative index from the last character
\* rather than from the end.
StrInsertNegativeOffByOne(string, insert, index) ==
    IF index.kind = "units" THEN InsertError(ErrUnits)
    ELSE IF index.kind = "float" THEN InsertError(ErrNotInt)
    ELSE LET pos == IF index.n < 0 THEN MaxOf(Len(string.chars) + index.n, 0)
                    ELSE StrInsertPosition(string.chars, index.n)
         IN Inserted(IF string.quotes = "none" THEN "none" ELSE "double",
                     SubSeq(string.chars, 1, pos) \o insert \o SubSeq(string.chars, pos + 1, Len(string.chars)))

StrInsert(string, insert, index) ==
    IF index.kind = "units" THEN InsertError(ErrUnits)
    ELSE IF index.kind = "float" THEN InsertError(ErrNotInt)
    ELSE LET pos == StrInsertPosition(string.chars, index.n)
         IN Inserted(IF string.quotes = "none" THEN "none" ELSE "double",
                     SubSeq(string.chars, 1, pos) \o insert \o SubSeq(string.chars, pos + 1, Len(string.chars)))

\* The assertions of tests/strings.rs on str-insert: the arguments and the
\* value or the error expected.
StrInsertTest(name, string, insert, index, expected) ==
    [name |-> name, string |-> string, insert |-> insert, index |-> index, expected |-> expected]

StrInsertTests ==
    { StrInsertTest("str_insert_start", Str("double", Abcd), <<"X">>, IntIndex(1),
                    Inserted("double", <<"X", "a", "b", "c", "d">>)),
      StrInsertTest("str_insert_middle", Str("double", Abcd), <<"X">>, IntIndex(4),
                    Inserted("double", <<"a", "b", "c", "X", "d">>)),
      StrInsertTest("str_insert_end", Str("double", Abcd), <<"X">>, IntIndex(5),
                    Inserted("double", <<"a", "b", "c", "d", "X">>)),
      StrInsertTest("str_insert_sgl_quotes", Str("single", Abcd), <<"X">>, IntIndex(4),
                    Inserted("double", <<"a", "b", "c", "X", "d">>)),
      StrInsertTest("str_insert_no_quotes", Str("none", Abcd), <<"X">>, IntIndex(4),
                    Inserted("none", <<"a", "b", "c", "X", "d">>)),
      StrInsertTest("str_insert_empty_string", Str("double", <<>>), Abcd, IntIndex(4),
                    Inserted("double", Abcd)),
      StrInsertTest("str_insert_empty_substring", Str("none", Abcd), <<>>, IntIndex(4),
                    Inserted("none", Abcd)),
      StrInsertTest("str_insert_idx_0", Str("none", Abcd), <<"X">>, IntIndex(0),
                    Inserted("none", <<"X", "a", "b", "c", "d">>)),
      StrInsertTest("str_insert_negative_1", Str("none", Abc), <<"X">>, IntIndex(-1),
                    Inserted("none", <<"a", "b", "c", "X">>)),
      StrInsertTest("str_insert_negative_2", Str("none", Abc), <<"X">>, IntIndex(-2),
                    Inserted("none", <<"a", "b", "X", "c">>)),
      StrInsertTest("str_insert_negative_3", Str("none", Abc), <<"X">>, IntIndex(-3),
                    Inserted("none", <<"a", "X", "b", "c">>)),
      StrInsertTest("str_insert_float_idx", Str("none", Abcd), <<"X">>, HalfIndex, InsertError(ErrNotInt)),
      StrInsertTest("str_insert_idx_with_units", Str("none", Abcd), <<"X">>, PxIndex, InsertError(ErrUnits)),
      StrInsertTest("str_insert_idx_larger_than_string", Str("none", Abcd), <<"X">>, IntIndex(FarIndex),
                    Inserted("none", <<"a", "b", "c", "d", "X">>)),
      StrInsertTest("str_insert_idx_larger_than_string_negative", Str("none", Abcd), <<"X">>, IntIndex(-FarIndex),
                    Inserted("none", <<"X", "a", "b", "c", "d">>)) }

StringPool == {Str(q, chars) : q \in {"none", "single", "double"}, chars \in {<<>>, Abc, Abcd}}

InsertPool == {<<>>, <<"X">>, Abcd}

IndexPool == {IntIndex(n) : n \in (-MaxIndex)..MaxIndex} \cup {IntIndex(FarIndex), IntIndex(-FarIndex), HalfIndex, PxIndex}

StrInsertCall(string, insert, index) ==
    /\ inserted.op = "none"
    /\ inserted' = [op |-> "str-insert", string |-> string, insert |-> insert, index |-> index,
                    result |-> StrInsert(string, insert, index)]
    /\ UNCHANGED <<selectors, extensions, extensions_by_extender, media_contexts,
                   source_specificity, originals, calls, rules, registered, last, oneshot, trimmed, running, cascading, looped>>

NextStrInsert == \E string \in StringPool, insert \in InsertPool, index \in IndexPool : StrInsertCall(string, insert, index)

SpecStrInsert == Init /\ [][NextStrInsert]_vars

(***************************************************************************)
(* add_extension loop by loop.  The engine is written in place, as the     *)
(* code writes self; each step is one pass of one of the three loops: the  *)
(* loop over the extender's complexes (mod.rs:937), the loop of            *)
(* extend_existing_extensions (mod.rs:1040) and the loop of                *)
(* extend_existing_selectors (mod.rs:1127).  Of the call under way,        *)
(* `running` holds the clones `sels` and `existing` taken on entry, the    *)
(* position `i` in the extender's complexes, `k` in `existing` and `j` in  *)
(* `sels`, `sources`, `new_extensions` and the engine on entry.  Where a   *)
(* step goes next depends on `running` alone (the Move of the step); a     *)
(* call under way keeps running, so the moves are weakly fair.             *)
(***************************************************************************)
\* The rules of the extension loop  .c {@extend .a}  .x.y.a {@extend .b}
\* .z.b {@extend .c},  and of the loops  .a {@extend .a},
\* .b, .c {@extend .a},  .a {@extend .b}:  the extender's list and the
\* target.
CascadeRules ==
    { [extender |-> <<OneCompound(<<C>>)>>, target |-> A],
      [extender |-> <<OneCompound(<<X, Y, A>>)>>, target |-> B],
      [extender |-> <<OneCompound(<<Class("z"), B>>)>>, target |-> C],
      [extender |-> <<OneCompound(<<A>>)>>, target |-> A],
      [extender |-> <<OneCompound(<<B>>), OneCompound(<<C>>)>>, target |-> A],
      [extender |-> <<OneCompound(<<A>>)>>, target |-> B] }

\* A loop that visits the same position again.
Stay(n) == n

\* The position after n in a loop over a clone.
Advance(n) == n + 1

\* add_extension up to its loop: the clones are taken and extensions gets
\* its entry for `target`.
BeginExtension(extender, target, is_optional) ==
    /\ running.pc = "idle"
    /\ calls < MaxCalls
    /\ oneshot.op = "none"
    /\ \E ord \in Perms(IF target \in DOMAIN selectors THEN selectors[target] ELSE {}) :
           running' = [pc |-> "complexes", extender |-> extender, target |-> target,
                       is_optional |-> is_optional,
                       sels |-> IF target \in DOMAIN selectors THEN Some(ord) ELSE None,
                       existing |-> IF target \in DOMAIN extensions_by_extender
                                    THEN Some(extensions_by_extender[target]) ELSE None,
                       i |-> 1, k |-> 0, j |-> 0,
                       sources |-> IF target \in DOMAIN extensions THEN extensions[target] ELSE <<>>,
                       new_extensions |-> <<>>, entry |-> Some(Engine)]
    /\ extensions' = IF target \in DOMAIN extensions THEN extensions ELSE MapPut(extensions, target, <<>>)
    /\ calls' = calls + 1
    /\ UNCHANGED <<selectors, extensions_by_extender, media_contexts, source_specificity, originals,
                   rules, registered, last, oneshot, trimmed, inserted, cascading, looped>>

\* Where one pass of the loop over the extender's complexes goes next: the
\* call returns after the last complex and when there is nothing to
\* re-extend, the loop continues with the next complex when the extension
\* is in `sources`, and the cascade starts otherwise.
ComplexMove ==
    /\ running.pc = "complexes"
    /\ running' =
           IF running.i > Len(running.extender) THEN [running EXCEPT !.pc = "idle"]
           ELSE LET complex == running.extender[running.i]
                    state == NewExtension(complex, running.target, running.is_optional, NoMedia)
                IN IF MapHas(running.sources, complex)
                   THEN [running EXCEPT !.i = Advance(@),
                                        !.sources = ReplaceMerged(@, complex, Merge(MapGet(@, complex), state))]
                   ELSE IF ~(running.sels.some \/ running.existing.some)
                   THEN [running EXCEPT !.pc = "idle", !.sources = MapInsert(@, complex, state)]
                   ELSE [running EXCEPT !.pc = "extensions", !.k = 1,
                                        !.sources = MapInsert(@, complex, state),
                                        !.new_extensions = MapInsert(@, complex, state)]

\* One pass of the loop over the extender's complexes, up to the cascade;
\* on return `sources` goes into extensions[target].
ComplexStep ==
    /\ ComplexMove
    /\ IF running.i > Len(running.extender)
       THEN /\ SetEngine(CommitSources(Engine, running.target, running.sources))
            /\ UNCHANGED cascading
       ELSE LET complex == running.extender[running.i]
                state == NewExtension(complex, running.target, running.is_optional, NoMedia)
            IN IF MapHas(running.sources, complex)
               THEN UNCHANGED <<selectors, extensions, extensions_by_extender, media_contexts,
                                source_specificity, originals, cascading>>
               ELSE IF ~(running.sels.some \/ running.existing.some)
               THEN /\ SetEngine(CommitSources(AddExtensionEntered(Engine, complex, state), running.target,
                                               MapInsert(running.sources, complex, state)))
                    /\ UNCHANGED cascading
               ELSE /\ SetEngine(AddExtensionEntered(Engine, complex, state))
                    /\ cascading' = [by_target |-> [t \in {running.target} |->
                                                        MapInsert(running.new_extensions, complex, state)],
                                     additional |-> EmptyMap]
    /\ UNCHANGED <<calls, rules, registered, last, oneshot, trimmed, inserted, looped>>

\* Where one pass of extend_existing_extensions' loop goes next.
ExtensionMove ==
    /\ running.pc = "extensions"
    /\ running' = IF ~running.existing.some \/ running.k > Len(running.existing.val)
                  THEN [running EXCEPT !.pc = "selectors", !.j = 1]
                  ELSE [running EXCEPT !.k = Advance(@)]

\* One pass of extend_existing_extensions' loop; after the last one the
\* additional extensions go into new_extensions_by_target.
ExtensionStep ==
    /\ ExtensionMove
    /\ IF ~running.existing.some \/ running.k > Len(running.existing.val)
       THEN /\ cascading' = [cascading EXCEPT !.by_target = MapAddAll2(@, cascading.additional)]
            /\ UNCHANGED <<extensions_by_extender, originals>>
       ELSE LET extension == running.existing.val[running.k]
                r == ExtendComplex("Normal", source_specificity, originals, extension.extender,
                                   cascading.by_target)
                x == IF ~r.val.some
                     THEN [ebe |-> extensions_by_extender, additional |-> cascading.additional]
                     ELSE ReExtended(extensions_by_extender, cascading.additional, extension,
                                     extensions[extension.target], cascading.by_target, r.val.val, 1)
            IN /\ extensions_by_extender' = x.ebe
               /\ originals' = r.orig
               /\ cascading' = [cascading EXCEPT !.additional = x.additional]
    /\ UNCHANGED <<selectors, extensions, media_contexts, source_specificity,
                   calls, rules, registered, last, oneshot, trimmed, inserted, looped>>

\* Where one pass of extend_existing_selectors' loop goes next: after the
\* last list, to the next complex of the extender.
SelectorMove ==
    /\ running.pc = "selectors"
    /\ running' = IF ~running.sels.some \/ running.j > Len(running.sels.val)
                  THEN [running EXCEPT !.pc = "complexes", !.i = Advance(@)]
                  ELSE [running EXCEPT !.j = Advance(@)]

\* One pass of extend_existing_selectors' loop.
SelectorStep ==
    /\ SelectorMove
    /\ IF ~running.sels.some \/ running.j > Len(running.sels.val)
       THEN UNCHANGED <<selectors, originals>>
       ELSE LET old_value == running.sels.val[running.j]
                r == ExtendList("Normal", source_specificity, originals, old_value, cascading.by_target)
            IN /\ originals' = r.orig
               /\ selectors' = IF old_value = r.val THEN selectors
                               ELSE RegisterSelector(selectors, r.val, old_value)
    /\ UNCHANGED <<extensions, extensions_by_extender, media_contexts, source_specificity, cascading,
                   calls, rules, registered, last, oneshot, trimmed, inserted, looped>>

NextCascade ==
    \/ \E rule \in CascadeRules : running.pc = "idle" /\ AddSelector(rule.extender, NoMedia)
    \/ \E rule \in CascadeRules, is_optional \in BOOLEAN : BeginExtension(rule.extender, rule.target, is_optional)
    \/ ComplexStep
    \/ ExtensionStep
    \/ SelectorStep

SpecCascade ==
    Init /\ [][NextCascade]_vars /\ WF_running(ComplexMove \/ ExtensionMove \/ SelectorMove)

(***************************************************************************)
(* @for $var from <from> to|through <to>: the values the loop variable     *)
(* takes, in order; the body is evaluated once for each.  `from` and `to`  *)
(* are usize, `through` is 1 for `through` and 0 for `to`.  The build      *)
(* decides what a usize subtraction below zero does: with overflow checks  *)
(* it panics, without them it wraps to usize::MAX.                         *)
(***************************************************************************)
MaxFor == 5

\* The iterator parse_for builds (for_rule.rs:124-131) and runs (133-140):
\* from..(to + through) when from < to, and otherwise
\* ((to - through)..(from + 1)).skip(1).rev().  When to - through wraps, the
\* range starts at usize::MAX, above from + 1, and is empty.
ParseFor(from, to, through, overflow_checks) ==
    IF from < to
    THEN [ok |-> TRUE, values |-> [n \in 1..((to + through) - from) |-> from + (n - 1)]]
    ELSE IF to < through
    THEN [ok |-> ~overflow_checks, values |-> <<>>]
    ELSE [ok |-> TRUE, values |-> [n \in 1..((from + 1) - (to - through) - 1) |-> (from + 1) - n]]

ForCall(from, to, through, overflow_checks) ==
    /\ looped' = [op |-> "for", from |-> from, to |-> to, through |-> through,
                  overflow_checks |-> overflow_checks,
                  result |-> ParseFor(from, to, through, overflow_checks)]
    /\ UNCHANGED <<selectors, extensions, extensions_by_extender, media_contexts, source_specificity,
                   originals, calls, rules, registered, last, oneshot, trimmed, inserted, running,
                   cascading>>

NextFor ==
    \E from \in 0..MaxFor, to \in 0..MaxFor, through \in {0, 1}, overflow_checks \in BOOLEAN :
        ForCall(from, to, through, overflow_checks)

SpecFor == Init /\ [][NextFor]_vars

(***************************************************************************)
(* Properties.                                                             *)
(***************************************************************************)
IsAddSelector == last.op = "add_selector"

IsAddExtension == last.op = "add_extension"

IsOneShot == oneshot.op # "none"

\* The complex selector that is the single class or placeholder `s`.
Single(s) == OneCompound(<<s>>)

IsSingle(complex) ==
    /\ Len(complex) = 1
    /\ complex[1].kind = "compound"
    /\ Len(complex[1].components) = 1
    /\ ~complex[1].components[1].has

\* The last re-extension the last add_extension computed for each list.
FinalReExtensions ==
    {last.log[i] : i \in {i \in 1..Len(last.log) : \A j \in (i + 1)..Len(last.log) : last.log[j].old # last.log[i].old}}

\* C1: a list registered with add_selector is kept up to date: when an
\* add_extension re-extends a registered list into a different list, the
\* extended list is what selectors holds for the target afterwards.
C1_RegisteredListUpToDate ==
    IsAddExtension =>
        \A e \in FinalReExtensions :
            e.new # e.old => /\ e.new \in selectors[last.target]
                             /\ e.old \notin selectors[last.target]

\* The chains T <- s <- u of three different single simple selectors in
\* registration order: an extender s of target T was registered, and later
\* an extender u of s.
Chains ==
    {[target |-> registered[i].target, extender |-> registered[j].extender] :
        <<i, j>> \in {<<i, j>> \in (1..Len(registered)) \X (1..Len(registered)) :
                        /\ i < j
                        /\ IsSingle(registered[i].extender)
                        /\ IsSingle(registered[j].extender)
                        /\ registered[i].extender = Single(registered[j].target)
                        /\ registered[i].target # registered[j].target
                        /\ registered[j].extender # registered[i].extender
                        /\ registered[j].extender # Single(registered[i].target)}}

\* C2: extension is transitive across registrations: once u extends s and
\* s already extended T, the list held for every rule that contains T holds
\* u, and so does the list add_selector returns for such a rule afterwards.
C2_TransitiveExtension ==
    \A ch \in Chains :
        /\ \A rule \in rules :
               Single(ch.target) \in Range(rule.input) =>
                   \E held \in selectors[ch.target] :
                       /\ Range(rule.input) \subseteq Range(held)
                       /\ ch.extender \in Range(held)
        /\ (IsAddSelector /\ Single(ch.target) \in Range(last.list)) => ch.extender \in Range(last.result)

HasSelectorPseudo(complex) ==
    \E i \in 1..Len(complex) : \E k \in 1..Len(complex[i].components) : complex[i].components[k].has

\* A complex selector without the contents of its pseudo selectors, runs of
\* pseudos of one name counted once.
Skeleton(complex) ==
    [i \in 1..Len(complex) |->
        LET heads == [k \in 1..Len(complex[i].components) |-> [complex[i].components[k] EXCEPT !.sel = <<>>]]
            keep == {k \in 1..Len(heads) : k = 1 \/ ~heads[k].has \/ heads[k] # heads[k - 1]}
            RECURSIVE pick(_)
            pick(k) == IF k > Len(heads) THEN <<>>
                       ELSE (IF k \in keep THEN <<heads[k]>> ELSE <<>>) \o pick(k + 1)
        IN [complex[i] EXCEPT !.components = pick(1)]]

\* `complex` is a member of `list`, as it is or, when it holds pseudo
\* selectors, with their contents rewritten and its original status kept.
Preserved(complex, list) ==
    \/ complex \in Range(list)
    \/ /\ HasSelectorPseudo(complex)
       /\ \E c \in Range(list) : Skeleton(c) = Skeleton(complex) /\ c \in originals

VisibleComplexes(list) == {c \in Range(list) : ~ComplexIsInvisible(c)}

\* C3: first law of extend: every visible complex selector of a list given
\* to add_selector is a member of the list add_selector returned for it and
\* of every re-extension of that list computed by add_extension.
C3_OriginalsPreserved ==
    /\ \A rule \in rules : \A c \in VisibleComplexes(rule.input) : Preserved(c, rule.result)
    /\ IsAddExtension =>
           \A i \in 1..Len(last.log) : \A rule \in rules :
               rule.result = last.log[i].old =>
                   \A c \in VisibleComplexes(rule.input) : Preserved(c, last.log[i].new)

\* An add_extension re-extended the list of a rule into a longer list.
C3_Witness ==
    /\ IsAddExtension
    /\ \E i \in 1..Len(last.log) : \E rule \in rules :
           /\ rule.result = last.log[i].old
           /\ VisibleComplexes(rule.input) # {}
           /\ Len(last.log[i].new) > Len(last.log[i].old)

\* C4: identity: on an extender in which no extension has been registered,
\* add_selector returns its argument.
C4_Identity == (IsAddSelector /\ DOMAIN last.pre_extensions = {}) => last.result = last.list

\* add_selector was given `.a, .a` in a media context, after another call,
\* with no extension registered.
C4_Witness ==
    /\ IsAddSelector
    /\ DOMAIN last.pre_extensions = {}
    /\ calls >= 2
    /\ last.media.some
    /\ last.list = <<Single(A), Single(A)>>

\* C5: add_extension registers every complex of the extender: after the
\* call extensions[target] has an entry for each of them.
C5_EveryComplexRegistered ==
    IsAddExtension => \A c \in Range(last.list) : MapHas(extensions[last.target], c)

\* C6: re-declaring an extension merges optionality: an extension that was
\* there before the call is optional afterwards iff it was optional and the
\* new declaration is optional.
C6_MergedOptionality ==
    (IsAddExtension /\ last.target \in DOMAIN last.pre_extensions) =>
        \A c \in Range(last.list) :
            MapHas(last.pre_extensions[last.target], c) =>
                /\ MapHas(extensions[last.target], c)
                /\ MapGet(extensions[last.target], c).is_optional
                       = (MapGet(last.pre_extensions[last.target], c).is_optional /\ last.is_optional)

\* The simple selectors of the targets of the last one-shot call.
OneShotTargetSimples == UNION {Range(oneshot.targets[i][1].components) : i \in 1..Len(oneshot.targets)}

NoDuplicates(list) == \A i, j \in 1..Len(list) : list[i] = list[j] => i = j

\* No compound of `list` holds every one of `targets`, and neither does a
\* compound of the selector of one of its pseudos.
RECURSIVE NoCompoundHoldsAll(_, _)
NoCompoundHoldsAll(list, targets) ==
    \A i \in 1..Len(list) : \A j \in 1..Len(list[i]) :
        list[i][j].kind = "compound" =>
            /\ ~(targets \subseteq Range(list[i][j].components))
            /\ \A k \in 1..Len(list[i][j].components) :
                   (list[i][j].components[k].kind = "pseudo" /\ list[i][j].components[k].has)
                   => NoCompoundHoldsAll(list[i][j].components[k].sel, targets)

\* C7: all-targets gate: a one-shot extend or replace leaves a selector none
\* of whose compounds holds every target as it was; in Normal mode a
\* compound that holds one of several targets is extended by that target's
\* extenders.
C7_AllTargetsGate ==
    /\ (/\ IsOneShot
        /\ oneshot.res.ok
        /\ NoDuplicates(oneshot.selector)
        /\ ~ListIsInvisible(oneshot.selector)
        /\ NoCompoundHoldsAll(oneshot.selector, OneShotTargetSimples))
           => oneshot.res.list = oneshot.selector
    /\ IsAddSelector =>
           \A t \in DOMAIN last.pre_extensions :
               (Single(t) \in Range(last.list) /\ Cardinality(DOMAIN last.pre_extensions) > 1) =>
                   \A i \in 1..Len(last.pre_extensions[t]) :
                       IsSingle(last.pre_extensions[t][i].val.extender) =>
                           last.pre_extensions[t][i].val.extender \in Range(last.result)

\* replace(.a, .x, .a.b): one of the two targets occurs in the selector.
C7_Witness ==
    /\ oneshot.op = "replace"
    /\ oneshot.selector = <<Single(A)>>
    /\ oneshot.source = <<Single(X)>>
    /\ oneshot.targets = <<OneCompound(<<A, B>>)>>
    /\ oneshot.res.ok
    /\ oneshot.res.list = <<Single(A)>>

\* The last one-shot call had a selector that is one simple selector and
\* that selector as its only target.
SingleTargetCall ==
    /\ IsOneShot
    /\ oneshot.res.ok
    /\ Len(oneshot.selector) = 1
    /\ IsSingle(oneshot.selector[1])
    /\ oneshot.targets = oneshot.selector

RECURSIVE Distinct(_)
Distinct(list) ==
    IF list = <<>> THEN <<>>
    ELSE LET front == Distinct(Front(list))
         IN IF Contains(front, Last(list)) THEN front ELSE Append(front, Last(list))

IsSubsequence(small, big) ==
    \E pos \in [1..Len(small) -> 1..Len(big)] :
        /\ \A i \in 1..Len(small) : small[i] = big[pos[i]]
        /\ \A i, j \in 1..Len(small) : i < j => pos[i] < pos[j]

\* No member of `list` is a sub-selector of another member.
Incomparable(list) ==
    \A i, j \in 1..Len(list) : i # j => ~ComplexIsSuperSelector(list[i], list[j])

C9_ComplexTargetRejected ==
    IsOneShot =>
        IF \E i \in 1..Len(oneshot.targets) : Len(oneshot.targets[i]) > 1
        THEN ~oneshot.res.ok /\ oneshot.res.err = ErrComplexTarget /\ oneshot.res.list = <<>>
        ELSE oneshot.res.ok /\ oneshot.res.err = "" /\ oneshot.res.list # <<>>

\* A call whose second target is complex was rejected.
C9_Witness ==
    /\ IsOneShot
    /\ Len(oneshot.targets) = 2
    /\ Len(oneshot.targets[1]) = 1
    /\ Len(oneshot.targets[2]) = 2
    /\ ~oneshot.res.ok

\* C10: add_selector records the media context: after add_selector(L,
\* Some(m)) returned R, media_contexts[R] = m, and every later re-extension
\* of R runs under m.
C10_MediaContextRecorded ==
    /\ (IsAddSelector /\ last.media.some) =>
           /\ last.result \in DOMAIN media_contexts
           /\ media_contexts[last.result] = last.media.val
    /\ IsAddExtension =>
           \A i \in 1..Len(last.log) : \A rule \in rules :
               (rule.result = last.log[i].old /\ rule.media.some) => last.log[i].media = rule.media

\* Some complex that is not an original occurs twice in `list`.
RepeatsNonOriginal(list, orig) ==
    \E i, j \in 1..Len(list) : i < j /\ list[i] = list[j] /\ list[i] \notin orig

\* C11: trim threshold: trim returns more than 100 candidates as they are;
\* 100 candidates or fewer are trimmed: with no source specificity
\* recorded, a repeated complex that is not an original is dropped.
C11_TrimThreshold ==
    trimmed.op = "trim" =>
        /\ Len(trimmed.selectors) > 100 => trimmed.result = trimmed.selectors
        /\ (/\ Len(trimmed.selectors) <= 100
            /\ trimmed.source_specificity = EmptyMap
            /\ RepeatsNonOriginal(trimmed.selectors, trimmed.originals))
               => Len(trimmed.result) < Len(trimmed.selectors)

\* trim was given 101 selectors of which the last repeats the first, and
\* returned all 101.
C11_Witness ==
    /\ trimmed.op = "trim"
    /\ Len(trimmed.selectors) = 101
    /\ trimmed.originals = {}
    /\ trimmed.selectors[101] = trimmed.selectors[1]
    /\ Len(trimmed.result) = 101

\* C12: trimming is idempotent: trim returns the result of a trim as it is.
C12_TrimIdempotent == trimmed.op = "again" => trimmed.result = trimmed.selectors

\* The first trim dropped a candidate and kept two or more.
C12_Witness ==
    /\ trimmed.op = "again"
    /\ Len(trimmed.selectors) < Len(trimmed.input)
    /\ Len(trimmed.selectors) >= 2

\* The extenders registered for `t` before the last call, in insertion
\* order, without `t` itself.
ExtendersOf(t) ==
    SelectSeq([i \in 1..Len(last.pre_extensions[t]) |-> last.pre_extensions[t][i].val.extender],
              LAMBDA c : c # Single(t))

\* C13: order determinism: the engine add_extension leaves does not depend
\* on the order in which the set of registered lists is visited, and
\* add_selector emits the extenders of a target in their insertion order.
C13_OrderDeterminism ==
    /\ IsAddExtension => Cardinality(last.outcomes) = 1
    /\ IsAddSelector =>
           \A t \in DOMAIN last.pre_extensions :
               last.list = <<Single(t)>> =>
                   SelectSeq(last.result, LAMBDA c : Contains(ExtendersOf(t), c))
                       = SelectSeq(ExtendersOf(t), LAMBDA c : Contains(last.result, c))

\* add_extension re-extended two different registered lists, both into
\* longer lists.
C13_Witness ==
    /\ IsAddExtension
    /\ Cardinality(last.outcomes) = 1
    /\ \E i, j \in 1..Len(last.log) :
           /\ last.log[i].old # last.log[j].old
           /\ Len(last.log[i].new) > Len(last.log[i].old)
           /\ Len(last.log[j].new) > Len(last.log[j].old)

\* The last call was str-insert with the arguments of `test`.
IsTest(test) ==
    /\ inserted.op = "str-insert"
    /\ inserted.string = test.string
    /\ inserted.insert = test.insert
    /\ inserted.index = test.index

\* C14: str-insert places $insert by a 1-based, clamped index: before the
\* n-th character for n > 0, at the start for 0, after the n-th character
\* from the end for -n, appended or prepended beyond the length; the result
\* is quoted iff $string is; an index that is not an integer or has a unit
\* is an error.  The function so described returns what each assertion of
\* tests/strings.rs expects, and on every call it keeps the characters of
\* $string in order around $insert.
C14_StrInsert ==
    /\ \A test \in StrInsertTests : IsTest(test) => inserted.result = test.expected
    /\ (inserted.op = "str-insert" /\ inserted.index.kind = "int") =>
           /\ inserted.result.ok
           /\ (inserted.result.quotes = "none") = (inserted.string.quotes = "none")
           /\ Len(inserted.result.chars) = Len(inserted.string.chars) + Len(inserted.insert)
           /\ inserted.index.n >= Len(inserted.string.chars) + 1
                  => inserted.result.chars = inserted.string.chars \o inserted.insert
           /\ inserted.index.n < -Len(inserted.string.chars)
                  => inserted.result.chars = inserted.insert \o inserted.string.chars
    /\ (inserted.op = "str-insert" /\ inserted.index.kind # "int") => ~inserted.result.ok

\* str-insert(abc, "X", -2) returned abXc.
C14_Witness ==
    /\ inserted.op = "str-insert"
    /\ inserted.string = Str("none", Abc)
    /\ inserted.insert = <<"X">>
    /\ inserted.index = IntIndex(-2)
    /\ inserted.result = Inserted("none", <<"a", "b", "X", "c">>)

\* C15: invariant of the selector index: selectors[s] holds a list iff a
\* simple selector of that list, pseudo contents included, equals s.
C15_SelectorIndex ==
    /\ \A s \in DOMAIN selectors : \A list \in selectors[s] : s \in RegisteredSimples(list)
    /\ \A rule \in rules : \A s \in RegisteredSimples(rule.result) :
           s \in DOMAIN selectors /\ rule.result \in selectors[s]

\* The extensions the engine holds: the values of extensions and the
\* elements of extensions_by_extender.
HeldExtensions ==
    UNION {Range(MapValues(extensions[t])) : t \in DOMAIN extensions}
        \cup UNION {Range(extensions_by_extender[s]) : s \in DOMAIN extensions_by_extender}

\* C16: invariant of the reverse index: extensions_by_extender[s] holds an
\* extension the engine holds iff a simple selector of its extender equals
\* s.
C16_ReverseIndex ==
    /\ \A s \in DOMAIN extensions_by_extender : \A e \in Range(extensions_by_extender[s]) :
           s \in Range(ComplexSimples(e.extender))
    /\ \A e \in HeldExtensions : \A s \in Range(ComplexSimples(e.extender)) :
           s \in DOMAIN extensions_by_extender /\ e \in Range(extensions_by_extender[s])

\* The engine holds an extension with the extender `.b.c`, of another
\* target than the call's, under both of its simple selectors.
C16_Witness ==
    /\ IsAddExtension
    /\ \E e \in HeldExtensions :
           /\ e.extender = OneCompound(<<B, C>>)
           /\ e.target # last.target
           /\ {B, C} \subseteq DOMAIN extensions_by_extender
           /\ e \in Range(extensions_by_extender[B]) \cap Range(extensions_by_extender[C])

\* C17: invariant of the extension index: every entry of extensions[t] is
\* keyed by the extender of its extension, and that extension targets t.
C17_ExtensionIndex ==
    \A t \in DOMAIN extensions : \A i \in 1..Len(extensions[t]) :
        /\ extensions[t][i].val.target = t
        /\ extensions[t][i].val.extender = extensions[t][i].key

\* add_extension added an entry to a target that had entries already, for
\* an extender of which another complex was registered before.
C17_Witness ==
    /\ IsAddExtension
    /\ last.target \in DOMAIN last.pre_extensions
    /\ Len(last.pre_extensions[last.target]) >= 1
    /\ Len(extensions[last.target]) > Len(last.pre_extensions[last.target])
    /\ \E c \in Range(last.list) : MapHas(last.pre_extensions[last.target], c)

\* C18: source_specificity is write-once per key: no call changes or drops
\* an entry, and a new entry comes from add_extension and is the maximal
\* specificity of a complex of the extender that contains the key.
C18_WriteOnce ==
    [][/\ \A s \in DOMAIN source_specificity :
              s \in DOMAIN source_specificity' /\ source_specificity'[s] = source_specificity[s]
       /\ \A s \in (DOMAIN source_specificity') \ DOMAIN source_specificity :
              /\ last'.op = "add_extension"
              /\ \E c \in Range(last'.list) :
                     /\ s \in Range(ComplexSimples(c))
                     /\ source_specificity'[s] = ComplexMaxSpecificity(c)]_vars

\* add_extension with the extender `.b.c` after `.b` was an extender:
\* `.c` gets the specificity of `.b.c`, `.b` keeps the one of `.b`.
C18_Witness ==
    /\ IsAddExtension
    /\ OneCompound(<<B, C>>) \in Range(last.list)
    /\ {B, C} \subseteq DOMAIN source_specificity
    /\ source_specificity[B] = ClassSpecificity
    /\ source_specificity[C] = 2 * ClassSpecificity

\* C19: cascading updates the extension index: when add_extension adds an
\* extension c -> t and an existing extension e has the extender `t`, so
\* that re-extending it newly produces c, then after the call
\* extensions[e.target] has an entry keyed by c.
C19_CascadeIndexed ==
    IsAddExtension =>
        \A u \in DOMAIN last.pre_extensions : \A i \in 1..Len(last.pre_extensions[u]) :
            last.pre_extensions[u][i].val.extender = Single(last.target) =>
                \A c \in Range(last.list) :
                    (/\ c # Single(last.target)
                     /\ ~(last.target \in DOMAIN last.pre_extensions
                            /\ MapHas(last.pre_extensions[last.target], c)))
                        => MapHas(extensions[u], c)

\* How often e occurs in the sequence q.
Occurrences(q, e) == Cardinality({i \in 1..Len(q) : q[i] = e})

\* C20: a cascading pass never registers an existing extension a second
\* time: an extension that extensions_by_extender[s] holds before an
\* add_extension call, and that the call does not declare itself (it has
\* another target), occurs in extensions_by_extender[s] as often after the
\* call as before.
C20_NotRegisteredTwice ==
    [][last'.op = "add_extension" =>
           \A s \in DOMAIN extensions_by_extender : \A e \in Range(extensions_by_extender[s]) :
               e.target # last'.target =>
                   Occurrences(extensions_by_extender'[s], e) = Occurrences(extensions_by_extender[s], e)]_vars

\* C21: trim never trims an original: every candidate that is an original
\* is in the result.
C21_OriginalsKept ==
    trimmed.op \in {"trim", "again"} =>
        \A c \in Range(trimmed.selectors) : c \in trimmed.originals => c \in Range(trimmed.result)

\* trim dropped a candidate and kept the original `.a.b`, of which the
\* candidate `.a` is a superselector of sufficient specificity.
C21_Witness ==
    /\ trimmed.op = "trim"
    /\ trimmed.source_specificity = EmptyMap
    /\ OneCompound(<<A, B>>) \in trimmed.originals
    /\ {OneCompound(<<A>>), OneCompound(<<A, B>>)} \subseteq Range(trimmed.selectors)
    /\ Len(trimmed.result) < Len(trimmed.selectors)
    /\ OneCompound(<<A, B>>) \in Range(trimmed.result)

\* C22: trim does not include duplicate originals: of at most 100
\* candidates, each one that is an original occurs at most once in the
\* result.
C22_NoDuplicateOriginals ==
    (trimmed.op = "trim" /\ Len(trimmed.selectors) <= 100) =>
        \A c \in trimmed.originals : Occurrences(trimmed.result, c) <= 1

\* C23: a trimmed selector is covered by a kept one: when trim drops a
\* candidate that is not an original, its result holds a superselector of
\* that candidate whose minimal specificity is at least the maximal source
\* specificity of the candidate's compounds.
C23_TrimmedIsCovered ==
    (trimmed.op = "trim" /\ Len(trimmed.selectors) <= 100) =>
        \A c1 \in Range(trimmed.selectors) \ trimmed.originals :
            Occurrences(trimmed.result, c1) < Occurrences(trimmed.selectors, c1) =>
                \E c2 \in Range(trimmed.result) :
                    /\ ComplexIsSuperSelector(c2, c1)
                    /\ ComplexMinSpecificity(c2) >= TrimMaxSpecificity(trimmed.source_specificity, c1)

\* C24: no-op extension is the identity: when no simple selector of the
\* list given to add_selector is a key of extensions, the list comes back
\* as it was given, same complexes, same order, same multiplicity.
C24_NoOpIdentity ==
    (IsAddSelector /\ RegisteredSimples(last.list) \cap DOMAIN last.pre_extensions = {}) =>
        last.result = last.list

\* The complex selectors inside the `:not` pseudos of `list`.
NotContents(list) ==
    UNION {UNION {Range(s.sel) : s \in {s \in Range(ComplexSimples(list[i])) : s.kind = "pseudo" /\ s.name = "not"}}
           : i \in 1..Len(list)}

AllSimpleOrAllComplex(cs) == (\A c \in cs : Len(c) <= 1) \/ (\A c \in cs : Len(c) > 1)

GivenPseudo == oneshot.selector[1][1].components[1]

IsPseudoCall == IsOneShot /\ oneshot.res.ok /\ GivenPseudo.kind = "pseudo" /\ GivenPseudo.has

\* The complex selectors of the extended inner list that the `:not` filter
\* leaves.
Resulting ==
    IF /\ GivenPseudo.name = "not"
       /\ \A i \in 1..Len(GivenPseudo.sel) : Len(GivenPseudo.sel[i]) <= 1
       /\ \E i \in 1..Len(oneshot.pseudo.extended) : Len(oneshot.pseudo.extended[i]) = 1
    THEN SelectSeq(oneshot.pseudo.extended, LAMBDA complex : Len(complex) <= 1)
    ELSE oneshot.pseudo.extended

\* C26: extend_pseudo returns None when the extended inner list equals the
\* original; for a `:not` that held one complex it returns one `:not` for
\* each resulting complex; for every other pseudo, and for a `:not` that
\* held a list, it returns one pseudo that wraps the resulting list.
C26_PseudoSplit ==
    IsPseudoCall =>
        IF oneshot.pseudo.extended = GivenPseudo.sel THEN oneshot.pseudo.ret = None
        ELSE IF GivenPseudo.name = "not" /\ Len(GivenPseudo.sel) = 1
        THEN oneshot.pseudo.ret = Some([i \in 1..Len(Resulting) |-> PseudoSel("not", <<Resulting[i]>>)])
        ELSE oneshot.pseudo.ret = Some(<<PseudoSel(GivenPseudo.name, Resulting)>>)

\* extend(:not(.a), .x, .a) made extend_pseudo return `:not(.a)`, `:not(.x)`
\* and the call return the compound `:not(.a):not(.x)`.
C26_Witness ==
    /\ oneshot.op = "extend"
    /\ oneshot.selector = <<OneCompound(<<PseudoSel("not", <<OneCompound(<<A>>)>>)>>)>>
    /\ oneshot.pseudo.ret = Some(<<PseudoSel("not", <<OneCompound(<<A>>)>>), PseudoSel("not", <<OneCompound(<<X>>)>>)>>)
    /\ oneshot.res.list = <<OneCompound(<<PseudoSel("not", <<OneCompound(<<A>>)>>),
                                           PseudoSel("not", <<OneCompound(<<X>>)>>)>>)>>

\* C28: add_extension on an unreferenced target does no cascading: when
\* the target is a key of neither selectors nor extensions_by_extender, the
\* call leaves selectors, originals, media_contexts and the extensions of
\* every other target as they were.
C28_UnreferencedTargetFrame ==
    [][(/\ calls' = calls + 1
        /\ last'.op = "add_extension"
        /\ last'.target \notin DOMAIN selectors
        /\ last'.target \notin DOMAIN extensions_by_extender)
       => /\ selectors' = selectors
          /\ originals' = originals
          /\ media_contexts' = media_contexts
          /\ (DOMAIN extensions') \ {last'.target} = (DOMAIN extensions) \ {last'.target}
          /\ \A t \in (DOMAIN extensions) \ {last'.target} : extensions'[t] = extensions[t]]_vars

\* add_extension was called for a target that no registered list and no
\* extender holds, while lists were registered and another target had
\* extensions.
C28_Witness ==
    /\ IsAddExtension
    /\ last.target \notin DOMAIN selectors
    /\ last.target \notin DOMAIN extensions_by_extender
    /\ DOMAIN selectors # {}
    /\ originals # {}
    /\ DOMAIN last.pre_extensions \ {last.target} # {}
    /\ Len(extensions[last.target]) >= 1

\* C27: add_extension always terminates: from every state in which a call
\* is under way, whatever the engine and the input, extension loops
\* included, the run reaches the state in which the call has returned.
C27_Terminates == (running.pc # "idle") ~> (running.pc = "idle")

\* What the call that returns leaves is what add_extension gives for the
\* engine and the input it was given.
CascadeAgrees ==
    [][(running.pc # "idle" /\ running'.pc = "idle")
       => Engine' = AddExtensionResult(running.entry.val, running.extender, running.target,
                                       running.is_optional, NoMedia,
                                       IF running.sels.some THEN running.sels.val ELSE <<>>).eng]_vars

\* The call for  .z.b {@extend .c}  has returned after re-extending the
\* extensions of  .c {@extend .a}  and  .x.y.a {@extend .b}.
C27_Witness ==
    /\ running.pc = "idle"
    /\ running.target = C
    /\ running.extender = <<OneCompound(<<Class("z"), B>>)>>
    /\ running.existing.some
    /\ running.k > Len(running.existing.val)
    /\ running.k > 1
    /\ {A, B, C} \subseteq DOMAIN extensions
    /\ \A t \in {A, B, C} : extensions[t] # <<>>

\* The values from `lo` up to `hi`, and from `hi` down to `lo`, by one.
Ascending(lo, hi) == [n \in 1..(hi - lo + 1) |-> lo + (n - 1)]

Descending(hi, lo) == [n \in 1..(hi - lo + 1) |-> hi - (n - 1)]

\* C29: parse_for evaluates the body once per value of the loop variable:
\* when from < to, ascending from `from` to `to - 1` for `to` and to `to`
\* for `through`; when from >= to, descending from `from` to `to + 1` for
\* `to` and to `to` for `through`; for all bounds, `to` = 0 with `through`
\* included, without arithmetic underflow.
C29_ForValues ==
    looped.op = "for"
    => /\ looped.result.ok
       /\ looped.result.values =
              IF looped.from < looped.to
              THEN Ascending(looped.from, IF looped.through = 1 THEN looped.to ELSE looped.to - 1)
              ELSE Descending(looped.from, IF looped.through = 1 THEN looped.to ELSE looped.to + 1)

====
